---------------------------- MODULE Spec2Model ----------------------------
(***************************************************************************)
(* A model of the NiTi simulation dashboard (setup_sim/src/dashboard.py):  *)
(* the LAMMPS log parser, the status poller and the authenticated HTTP     *)
(* surface.                                                                *)
(*                                                                         *)
(* Text is modelled at character level: a string is a sequence of          *)
(* one-character strings, a log file is a sequence of raw lines (without   *)
(* their newline) followed by `pad` further empty lines.  A float is held  *)
(* as an integer number of hundredths, a progress percentage as an integer *)
(* number of 1/400 percent (see Pct), so that len/10000*100 and sum/4 are  *)
(* exact.                                                                  *)
(***************************************************************************)
EXTENDS Integers, Sequences, FiniteSets, TLC

VARIABLES
    log_input,      \* the file handed to parse_lammps_log
    parse_result,   \* what parse_lammps_log returned for it (NotCalled before)
    phase_dir,      \* phase_dir[i]: DATA_DIR/phase<i> exists
    log_dir,        \* log_dir[i]: DATA_DIR/phase<i>/logs exists
    complete_flag,  \* complete_flag[i]: DATA_DIR/phase<i>/COMPLETE exists
    log_files,      \* log_files[i]: the *.log files of phase<i>/logs, by name
    plot_files,     \* plot_files[i]: the columns c with PLOT_DIR/phase<i>_latest_<c>.png
    active_lammps,  \* the list get_simulation_status read from pgrep in its last call
    status_result,  \* what get_simulation_status returned last (NoStatus before,
                    \* and again once the filesystem has changed under it)
    session,        \* session[c]: the Flask session of client c, a dictionary
    request,        \* the request served last
    response,       \* the response it was given
    pipeline_script,\* setup_sim/src/pipeline.sh exists
    pipeline_procs, \* the number of pipeline.sh processes alive
    pipeline_log,   \* DATA_DIR/pipeline.log: "absent", "empty" or "written"
    remote_url,     \* the global remote_url (NoUrl for None)
    plot_calls,     \* plot_calls[i]: the (headers, data) the last call of
                    \* get_simulation_status handed to create_plot for phase i
    poll,           \* a call of get_simulation_status in progress, step by step
    data_dir,       \* DATA_DIR of the report script ("../output/") exists
    data_files,     \* the input files of the report script
    figure_files,   \* the files of FIGURE_DIR
    main_pc,        \* the step main() of the report script is at
    main_raised,    \* the exception that left main(), "" for none
    returned,       \* returned[k]: what step k of main() returned
    html_report,    \* the sections of nanoparticle_analysis_report.html
    pdf_content,    \* the content list of generate_pdf_report
    pdf_built       \* doc.build has written nanoparticle_analysis_report.pdf

fsvars == <<phase_dir, log_dir, complete_flag, log_files, plot_files>>
webvars == <<session, request, response, pipeline_script, pipeline_procs,
             pipeline_log, remote_url>>
repvars == <<data_dir, data_files, figure_files, main_pc, main_raised, returned,
             html_report, pdf_content, pdf_built>>
vars == <<log_input, parse_result, fsvars, active_lammps, status_result, webvars,
          plot_calls, poll, repvars>>

NotCalled == "not called"

(***************************************************************************)
(* Bounds of the model.                                                    *)
(***************************************************************************)
MaxLines == 4
MaxPhaseDirs == 1
MaxLogFiles == 2
MaxMtime == 2
MaxClients == 2
MaxPipelines == 2
MaxAppends == 3
PadStep == 4000
MaxPad == 12000

(***************************************************************************)
(* String literals of the source.                                          *)
(***************************************************************************)
kwStep == <<"S", "t", "e", "p">>
kwTemp == <<"T", "e", "m", "p">>
kwLoop == <<"L", "o", "o", "p">>
kwHash == <<"#">>
kwLoopTime == <<"L", "o", "o", "p", " ", "t", "i", "m", "e">>
colPotEng == <<"P", "o", "t", "E", "n", "g">>
colKinEng == <<"K", "i", "n", "E", "n", "g">>
colPress == <<"P", "r", "e", "s", "s">>

(***************************************************************************)
(* Python's str operations, on character sequences.                        *)
(***************************************************************************)
\* needle in hay
Contains(hay, needle) ==
    \E i \in 0..(Len(hay) - Len(needle)) :
        SubSeq(hay, i + 1, i + Len(needle)) = needle

\* s.startswith(prefix)
StartsWith(s, prefix) ==
    /\ Len(s) >= Len(prefix)
    /\ SubSeq(s, 1, Len(prefix)) = prefix

IsSpace(c) == c = " "

\* s.strip()
Strip(s) ==
    LET keep == {i \in 1..Len(s) : ~IsSpace(s[i])}
    IN  IF keep = {} THEN <<>>
        ELSE LET lo == CHOOSE i \in keep : \A j \in keep : i <= j
                 hi == CHOOSE i \in keep : \A j \in keep : i >= j
             IN  SubSeq(s, lo, hi)

RECURSIVE SplitFrom(_, _, _, _)
\* scans s from position i; cur is the token being read, acc the tokens read
SplitFrom(s, i, cur, acc) ==
    IF i > Len(s)
    THEN IF cur = <<>> THEN acc ELSE Append(acc, cur)
    ELSE IF IsSpace(s[i])
         THEN SplitFrom(s, i + 1, <<>>, IF cur = <<>> THEN acc ELSE Append(acc, cur))
         ELSE SplitFrom(s, i + 1, Append(cur, s[i]), acc)

\* s.split()
Split(s) == SplitFrom(s, 1, <<>>, <<>>)

(***************************************************************************)
(* Python's float(x), for decimal literals [sign] digits [. digits]; the   *)
(* value is held in hundredths (the inputs carry at most two decimals).    *)
(***************************************************************************)
FloatScale == 10 * 10

IsDigit(c) == c \in {"0", "1", "2", "3", "4", "5", "6", "7", "8", "9"}

DigitVal(c) ==
    CASE c = "0" -> 0 [] c = "1" -> 1 [] c = "2" -> 2 [] c = "3" -> 3
      [] c = "4" -> 4 [] c = "5" -> 5 [] c = "6" -> 6 [] c = "7" -> 7
      [] c = "8" -> 8 [] c = "9" -> 9

Unsigned(tok) ==
    IF tok # <<>> /\ Head(tok) \in {"+", "-"} THEN Tail(tok) ELSE tok

\* float(tok) does not raise ValueError
IsFloat(tok) ==
    LET u    == Unsigned(tok)
        dots == {i \in 1..Len(u) : u[i] = "."}
    IN  /\ Cardinality(dots) <= 1
        /\ \A i \in (1..Len(u)) \ dots : IsDigit(u[i])
        /\ Len(u) - Cardinality(dots) >= 1

RECURSIVE NatVal(_)
NatVal(ds) ==
    IF ds = <<>> THEN 0
    ELSE NatVal(SubSeq(ds, 1, Len(ds) - 1)) * 10 + DigitVal(ds[Len(ds)])

\* float(tok), in hundredths
FloatValue(tok) ==
    LET u    == Unsigned(tok)
        dots == {i \in 1..Len(u) : u[i] = "."}
        dot  == IF dots = {} THEN Len(u) + 1 ELSE CHOOSE i \in dots : TRUE
        ip   == SubSeq(u, 1, dot - 1)
        fp   == SubSeq(u, dot + 1, Len(u))
        frac == (IF Len(fp) >= 1 THEN DigitVal(fp[1]) * 10 ELSE 0)
                + (IF Len(fp) >= 2 THEN DigitVal(fp[2]) ELSE 0)
        mag  == NatVal(ip) * FloatScale + frac
    IN  IF tok # <<>> /\ Head(tok) = "-" THEN 0 - mag ELSE mag

(***************************************************************************)
(* parse_lammps_log                                                        *)
(***************************************************************************)
\* the loop's variables before the first line
ParseInit ==
    [data_sections   |-> <<>>,
     in_data_section |-> FALSE,
     headers         |-> <<>>,
     current_section |-> <<>>]

\* 'Step' in line and 'Temp' in line
IsHeaderLine(line) == Contains(line, kwStep) /\ Contains(line, kwTemp)

\* the guard of the numeric branch
IsCandidateRow(line) ==
    /\ line # <<>>
    /\ ~StartsWith(line, kwLoop)
    /\ ~StartsWith(line, kwHash)

\* [float(x) for x in line.split()] does not raise
RowConverts(line) ==
    LET toks == Split(line) IN \A k \in 1..Len(toks) : IsFloat(toks[k])

\* the list the comprehension builds
RowValues(line) ==
    LET toks == Split(line) IN [k \in 1..Len(toks) |-> FloatValue(toks[k])]

\* ParseLine with a row of the wrong length closing the section
ParseLine_MismatchCloses(st, raw) ==
    LET line == Strip(raw)
    IN  IF IsHeaderLine(line)
        THEN [data_sections   |->
                  IF st.in_data_section /\ st.current_section # <<>>
                  THEN Append(st.data_sections, <<st.headers, st.current_section>>)
                  ELSE st.data_sections,
              in_data_section |-> TRUE,
              headers         |-> Split(line),
              current_section |-> <<>>]
        ELSE IF st.in_data_section
        THEN IF IsCandidateRow(line)
             THEN IF RowConverts(line) /\ Len(RowValues(line)) = Len(st.headers)
                  THEN [st EXCEPT !.current_section = Append(@, RowValues(line))]
                  ELSE [st EXCEPT !.in_data_section = FALSE]
             ELSE st
        ELSE st

\* ParseLine without the test len(values) == len(headers)
ParseLine_AnyLength(st, raw) ==
    LET line == Strip(raw)
    IN  IF IsHeaderLine(line)
        THEN [data_sections   |->
                  IF st.in_data_section /\ st.current_section # <<>>
                  THEN Append(st.data_sections, <<st.headers, st.current_section>>)
                  ELSE st.data_sections,
              in_data_section |-> TRUE,
              headers         |-> Split(line),
              current_section |-> <<>>]
        ELSE IF st.in_data_section
        THEN IF IsCandidateRow(line)
             THEN IF RowConverts(line)
                  THEN [st EXCEPT !.current_section = Append(@, RowValues(line))]
                  ELSE [st EXCEPT !.in_data_section = FALSE]
             ELSE st
        ELSE st

\* ParseLine with a 'Loop' or '#' line closing the section
ParseLine_MarkerCloses(st, raw) ==
    LET line == Strip(raw)
    IN  IF IsHeaderLine(line)
        THEN [data_sections   |->
                  IF st.in_data_section /\ st.current_section # <<>>
                  THEN Append(st.data_sections, <<st.headers, st.current_section>>)
                  ELSE st.data_sections,
              in_data_section |-> TRUE,
              headers         |-> Split(line),
              current_section |-> <<>>]
        ELSE IF st.in_data_section
        THEN IF IsCandidateRow(line)
             THEN IF RowConverts(line)
                  THEN IF Len(RowValues(line)) = Len(st.headers)
                       THEN [st EXCEPT !.current_section = Append(@, RowValues(line))]
                       ELSE st
                  ELSE [st EXCEPT !.in_data_section = FALSE]
             ELSE IF line # <<>>
                  THEN [st EXCEPT !.in_data_section = FALSE]
                  ELSE st
        ELSE st

\* one iteration of the loop over the file's lines
ParseLine(st, raw) ==
    LET line == Strip(raw)
    IN  IF IsHeaderLine(line)
        THEN [data_sections   |->
                  IF st.in_data_section /\ st.current_section # <<>>
                  THEN Append(st.data_sections, <<st.headers, st.current_section>>)
                  ELSE st.data_sections,
              in_data_section |-> TRUE,
              headers         |-> Split(line),
              current_section |-> <<>>]
        ELSE IF st.in_data_section
        THEN IF IsCandidateRow(line)
             THEN IF RowConverts(line)
                  THEN IF Len(RowValues(line)) = Len(st.headers)
                       THEN [st EXCEPT !.current_section = Append(@, RowValues(line))]
                       ELSE st
                  ELSE [st EXCEPT !.in_data_section = FALSE]
             ELSE st
        ELSE st

RECURSIVE ParseLines(_, _)
\* the loop, run over a sequence of lines from the state st
ParseLines(st, lines) ==
    IF lines = <<>> THEN st
    ELSE ParseLines(ParseLine(st, Head(lines)), Tail(lines))

\* ParseFinish without the "Add the last section" step
ParseFinish_LastSectionDropped(st) == st.data_sections

\* "Add the last section" and return
ParseFinish(st) ==
    IF st.in_data_section /\ st.current_section # <<>>
    THEN Append(st.data_sections, <<st.headers, st.current_section>>)
    ELSE st.data_sections

\* The lines f.readlines() yields: the file's lines, then its trailing empty lines.
\* An empty line leaves the loop's state as it is in every branch, so the `pad`
\* trailing ones are not iterated over.
ReadLines(file) == file.lines

parse_lammps_log(file) ==
    IF ~file.readable
    THEN <<>>                       \* open() raises; the broad except returns []
    ELSE ParseFinish(ParseLines(ParseInit, ReadLines(file)))

(***************************************************************************)
(* Inputs of the parser.                                                   *)
(***************************************************************************)
lnHeader2 == <<"S", "t", "e", "p", " ", "T", "e", "m", "p">>
lnHeader3 == <<" ", " ", "S", "t", "e", "p", " ", " ", "T", "e", "m", "p", " ", "P", "o", "t", "E", "n", "g", " ">>
lnRowC == <<"1", " ", "2", ".", "5">>
lnRowD == <<" ", "2", ".", "5", "0", " ", "-", "1">>
lnRowE == <<"1", " ", "1", " ", "2", ".", "5">>
lnLoop == <<"L", "o", "o", "p", " ", "t", "i", "m", "e", " ", "o", "f", " ", "1">>
lnComment == <<"#", " ", "x">>
lnBlank == <<>>
lnMixed == <<"1", " ", "W">>
lnCommentHeader == <<"#", " ", "S", "t", "e", "p", " ", "T", "e", "m", "p">>

HeaderLines == {lnHeader2, lnHeader3, lnCommentHeader}
NumericLines == {lnRowC, lnRowD, lnRowE}
OtherLines == {lnLoop, lnComment, lnBlank, lnMixed}
LineVocabulary == HeaderLines \cup NumericLines \cup OtherLines

SeqsUpTo(S, n) == UNION {[1..k -> S] : k \in 0..n}

ParseInputs ==
    {[lines |-> l, pad |-> 0, readable |-> r] :
        l \in SeqsUpTo(LineVocabulary, MaxLines), r \in {TRUE}}
    \cup {[lines |-> <<lnHeader2, lnRowC>>, pad |-> 0, readable |-> FALSE]}

(***************************************************************************)
(* The filesystem get_simulation_status reads.                             *)
(***************************************************************************)
NumPhases == 4
Phases == 1..NumPhases

\* a logs directory without a file
NoLogs == [n \in {} |-> <<>>]
logA == <<"a", ".", "l", "o", "g">>
logB == <<"b", ".", "l", "o", "g">>
LogNames == {logA, logB}

\* for plot_type in ['Temp', 'PotEng', 'KinEng', 'Press']
PlotTypes == <<kwTemp, colPotEng, colKinEng, colPress>>

\* len(content) of a readable file: every line with its newline, then the
\* trailing empty lines
RECURSIVE TextLen(_)
TextLen(lines) ==
    IF lines = <<>> THEN 0 ELSE Len(Head(lines)) + 1 + TextLen(Tail(lines))

ContentLen(file) == TextLen(file.lines) + file.pad

\* HasLoopTime looking at the last line of the file alone
HasLoopTime_LastLine(file) ==
    file.lines # <<>> /\ Contains(file.lines[Len(file.lines)], kwLoopTime)

\* "Loop time" in content; the marker holds no newline, so it lies within a line
HasLoopTime(file) == \E k \in 1..Len(file.lines) : Contains(file.lines[k], kwLoopTime)

FsEmpty ==
    /\ phase_dir = [i \in Phases |-> FALSE]
    /\ log_dir = [i \in Phases |-> FALSE]
    /\ complete_flag = [i \in Phases |-> FALSE]
    /\ log_files = [i \in Phases |-> NoLogs]
    /\ plot_files = [i \in Phases |-> {}]

\* no status is held
NoStatus == [phases |-> <<>>]

\* create_plot was not called for any phase
NoCalls == [i \in Phases |-> <<>>]

\* no call of get_simulation_status is in progress
NoPoll == [pc |-> "idle"]

NotPolled ==
    /\ status_result = NoStatus
    /\ active_lammps = <<>>
    /\ plot_calls = NoCalls
    /\ poll = NoPoll

(***************************************************************************)
(* The report script (py_phase4.py) before main() is called.               *)
(***************************************************************************)
\* the steps of main(), in order
Steps ==
    <<"analyze_size_distribution", "analyze_composition", "analyze_structure",
      "analyze_thermodynamics", "analyze_time_evolution", "generate_report",
      "generate_pdf_report">>

NumSteps == Len(Steps)

NotRun == "not run"

MainNotStarted ==
    /\ main_pc = 0
    /\ main_raised = ""
    /\ returned = [k \in 1..NumSteps |-> NotRun]
    /\ html_report = <<>>
    /\ pdf_content = <<>>
    /\ pdf_built = FALSE

\* a missing file
Missing == [exists |-> FALSE, rows |-> <<>>]

ReportOff ==
    /\ MainNotStarted
    /\ data_dir = FALSE
    /\ data_files = [size |-> Missing, composition |-> Missing, rdf |-> Missing,
                     thermo |-> Missing, evolution |-> Missing]
    /\ figure_files = {}

(***************************************************************************)
(* The state of the web application before any request.                    *)
(***************************************************************************)
Clients == 1..MaxClients

\* an empty dictionary
EmptyDict == [k \in {} |-> TRUE]

\* dict.get(k, default)
Get(d, k, default) == IF k \in DOMAIN d THEN d[k] ELSE default

\* d[k] = v
Set(d, k, v) == (k :> v) @@ d

\* d.pop(k, None)
Pop(d, k) == [x \in DOMAIN d \ {k} |-> d[x]]

\* remote_url = None
NoUrl == <<>>

NoRequest == [client |-> 0, method |-> "", path |-> <<>>, form |-> EmptyDict, args |-> EmptyDict]
NoLocation == [path |-> <<>>, args |-> EmptyDict]
NoResponse == [code |-> 0, body |-> [kind |-> "", key |-> <<>>], location |-> NoLocation,
               handler |-> ""]

WebIdle ==
    /\ session = [c \in Clients |-> EmptyDict]
    /\ request = NoRequest
    /\ response = NoResponse
    /\ pipeline_procs = 0
    /\ pipeline_log = "absent"

WebOff ==
    /\ WebIdle
    /\ pipeline_script = FALSE
    /\ remote_url = NoUrl
    /\ ReportOff

(***************************************************************************)
(* The parser applied to one input.                                        *)
(***************************************************************************)
InitParse ==
    /\ log_input \in ParseInputs
    /\ parse_result = NotCalled
    /\ FsEmpty
    /\ NotPolled
    /\ WebOff

CallParse ==
    /\ parse_result = NotCalled
    /\ parse_result' = parse_lammps_log(log_input)
    /\ UNCHANGED <<repvars, poll, log_input, fsvars, active_lammps, status_result, plot_calls, webvars>>

NextParse == CallParse

SpecParse == InitParse /\ [][NextParse]_vars

(***************************************************************************)
(* Claims about parse_lammps_log.                                          *)
(***************************************************************************)
ParseCalled == parse_result # NotCalled /\ log_input.readable

\* the loop's variables after the first k lines
LoopStateAfter(lines, k) == ParseLines(ParseInit, SubSeq(lines, 1, k))

Without(lines, k) == SubSeq(lines, 1, k - 1) \o SubSeq(lines, k + 1, Len(lines))

NoHeaderIn(lines, lo, hi) == \A j \in lo..hi : ~IsHeaderLine(Strip(lines[j]))

\* a line of floats, as many as the header has tokens
IsRowOfArity(raw, n) ==
    LET toks == Split(raw)
    IN  Len(toks) = n /\ \A k \in 1..n : IsFloat(toks[k])

\* one header line, then N >= 1 numeric rows of the header's arity
WellFormedLog(lines) ==
    /\ Len(lines) >= 2
    /\ IsHeaderLine(lines[1])
    /\ \A k \in 2..Len(lines) : IsRowOfArity(lines[k], Len(Split(lines[1])))

\* C4: for a log made of one header line and N >= 1 numeric rows of the header's
\* arity, parse_lammps_log returns exactly one section, whose headers are the
\* header's tokens and whose rows are those N rows (as floats) in file order.
C4_WellFormedLogOneSection ==
    (ParseCalled /\ WellFormedLog(log_input.lines)) =>
        parse_result =
            << <<Split(log_input.lines[1]),
                 [k \in 1..(Len(log_input.lines) - 1) |->
                     RowValues(log_input.lines[k + 1])]>> >>

\* C4 witness: an arity-3 header (with irregular spacing) and two rows, parsed.
C4_Witness ==
    /\ ParseCalled
    /\ log_input.lines = <<lnHeader3, lnRowE, lnRowE>>
    /\ parse_result =
           << << <<kwStep, kwTemp, colPotEng>>,
                 << <<100, 100, 250>>, <<100, 100, 250>> >> >> >>

\* line k is a numeric line met inside a section whose token count differs
\* from the header's
MismatchAt(lines, k) ==
    LET toks   == Split(lines[k])
        before == LoopStateAfter(lines, k - 1)
    IN  /\ toks # <<>>
        /\ \A t \in 1..Len(toks) : IsFloat(toks[t])
        /\ before.in_data_section
        /\ Len(toks) # Len(before.headers)

MarkerAt(lines, k) ==
    /\ \/ StartsWith(Strip(lines[k]), kwLoop)
       \/ StartsWith(Strip(lines[k]), kwHash)
    /\ ~IsHeaderLine(Strip(lines[k]))
    /\ LoopStateAfter(lines, k - 1).in_data_section

ConversionFailsAt(lines, k) ==
    LET toks == Split(lines[k])
    IN  /\ \E t \in 1..Len(toks) : ~IsFloat(toks[t])
        /\ IsCandidateRow(Strip(lines[k]))
        /\ ~IsHeaderLine(Strip(lines[k]))
        /\ LoopStateAfter(lines, k - 1).in_data_section

\* C7 as stated: a line inside a section that fails numeric conversion closes
\* the section by truncating it: the rows collected before that line are
\* returned as a section of the result.
C7_FailedRowTruncatesSection ==
    ParseCalled =>
        \A k \in 1..Len(log_input.lines) :
            (/\ ConversionFailsAt(log_input.lines, k)
             /\ LoopStateAfter(log_input.lines, k - 1).current_section # <<>>) =>
                \E s \in 1..Len(parse_result) :
                    parse_result[s] =
                        <<LoopStateAfter(log_input.lines, k - 1).headers,
                          LoopStateAfter(log_input.lines, k - 1).current_section>>

\* the indices of the header lines of a log
HeaderIndices(lines) == {k \in 1..Len(lines) : IsHeaderLine(Strip(lines[k]))}

\* the index of the last line that belongs to the header line at h: the line
\* before the next header line, or the last line of the log
SectionEnd(lines, h) ==
    IF \E k \in HeaderIndices(lines) : k > h
    THEN (CHOOSE k \in HeaderIndices(lines) :
              k > h /\ \A j \in HeaderIndices(lines) : j > h => k <= j) - 1
    ELSE Len(lines)

\* `rows` are values of lines lo..hi of the log, taken in file order
RowsInOrder(rows, lines, lo, hi) ==
    \E at \in [1..Len(rows) -> lo..hi] :
        /\ \A k \in 1..Len(rows) :
               /\ RowConverts(Strip(lines[at[k]]))
               /\ rows[k] = RowValues(Strip(lines[at[k]]))
        /\ \A k \in 1..(Len(rows) - 1) : at[k] < at[k + 1]

\* C24: every returned section has at least one row, and every row has as
\* many values as the section has header tokens; there are no more sections
\* than header lines; the sections are in file order: each one has the tokens
\* of a header line of its own, later in the file than that of the section
\* before, and its rows are values of lines between that header line and the
\* next one (so that a header line followed by no accepted row gives no
\* section).
C24_SectionsWellShaped ==
    ParseCalled =>
        LET lines == log_input.lines
            sections == parse_result
        IN  /\ \A k \in 1..Len(sections) :
                   /\ Len(sections[k][2]) >= 1
                   /\ \A r \in 1..Len(sections[k][2]) :
                          Len(sections[k][2][r]) = Len(sections[k][1])
            /\ Len(sections) <= Cardinality(HeaderIndices(lines))
            /\ \E at \in [1..Len(sections) -> HeaderIndices(lines)] :
                   /\ \A k \in 1..(Len(sections) - 1) : at[k] < at[k + 1]
                   /\ \A k \in 1..Len(sections) :
                          /\ sections[k][1] = Split(Strip(lines[at[k]]))
                          /\ at[k] < SectionEnd(lines, at[k])
                          /\ RowsInOrder(sections[k][2], lines,
                                         at[k] + 1, SectionEnd(lines, at[k]))

\* C24 witness: two header lines, the first followed only by a row of another
\* length: one section, that of the second header line.
C24_Witness ==
    /\ ParseCalled
    /\ log_input.lines = <<lnHeader2, lnRowE, lnHeader3, lnRowE>>
    /\ Len(parse_result) = 1
    /\ Len(parse_result[1][1]) = 3

\* two sections from two header lines, in file order
C24_TwoSections ==
    /\ ParseCalled
    /\ log_input.lines = <<lnHeader2, lnRowC, lnHeader3, lnRowE>>
    /\ Len(parse_result) = 2
    /\ Len(parse_result[1][1]) = 2
    /\ Len(parse_result[2][1]) = 3

(***************************************************************************)
(* get_simulation_status                                                   *)
(***************************************************************************)
Range(f) == {f[k] : k \in DOMAIN f}

Min(a, b) == IF a <= b THEN a ELSE b
Max(a, b) == IF a >= b THEN a ELSE b

DigitChar(d) ==
    CASE d = 0 -> "0" [] d = 1 -> "1" [] d = 2 -> "2" [] d = 3 -> "3"
      [] d = 4 -> "4" [] d = 5 -> "5" [] d = 6 -> "6" [] d = 7 -> "7"
      [] d = 8 -> "8" [] d = 9 -> "9"

RECURSIVE Str(_)
\* str(n) of a natural number
Str(n) == IF n < 10 THEN <<DigitChar(n)>> ELSE Append(Str(n \div 10), DigitChar(n % 10))

RECURSIVE Ascending(_)
\* the members of a set of numbers, smallest first
Ascending(S) ==
    IF S = {} THEN <<>>
    ELSE LET m == CHOOSE x \in S : \A y \in S : x <= y
         IN  <<m>> \o Ascending(S \ {m})

\* result.stdout.strip().split('\n') of `pgrep -f lmp`, which prints the matching
\* process ids one per line and exits non-zero when there is none
PgrepLammps(pids) ==
    IF pids = {} THEN <<>>
    ELSE LET sorted == Ascending(pids) IN [k \in 1..Len(sorted) |-> Str(sorted[k])]

\* progress values are held in units of 1/ProgressUnit percent
ProgressUnit == 4 * 100
Pct(n) == n * ProgressUnit

\* EstimatedProgress without the clamp
EstimatedProgress_Unclamped(file) == (ContentLen(file) * 100 * ProgressUnit) \div 10000

\* min(95, max(10, len(content) / 10000 * 100))
EstimatedProgress(file) ==
    Min(Pct(95), Max(Pct(10), (ContentLen(file) * 100 * ProgressUnit) \div 10000))

\* glob.glob(os.path.join(log_dir, "*.log")), `files` being the logs directory
GlobLogs(files) == DOMAIN files

\* LatestCandidates with min in place of max
LatestCandidates_Oldest(files) ==
    {n \in GlobLogs(files) :
        \A m \in GlobLogs(files) : files[m].mtime >= files[n].mtime}

\* the files max(log_files, key=os.path.getmtime) can return: glob's order is
\* arbitrary and max keeps the first of several files of the greatest mtime
LatestCandidates(files) ==
    {n \in GlobLogs(files) :
        \A m \in GlobLogs(files) : files[m].mtime <= files[n].mtime}

\* the phase reaches the "Analyze the most recent log file" branch
Analysed(i, files) ==
    /\ phase_dir[i]
    /\ log_dir[i]
    /\ GlobLogs(files) # {}
    /\ ~complete_flag[i]

\* f"{plot_base}_{plot_type}.png" with plot_base = f"phase{i}_latest"
PlotFile(i, col) ==
    <<"p", "h", "a", "s", "e">> \o Str(i) \o <<"_", "l", "a", "t", "e", "s", "t", "_">> \o col
        \o <<".", "p", "n", "g">>

\* the plot files of phase i among `existing`, in the order of the plot types
PlotList(i, existing) ==
    LET cols == SelectSeq(PlotTypes, LAMBDA c : c \in existing)
    IN  [k \in 1..Len(cols) |-> PlotFile(i, cols[k])]

\* the columns create_plot writes a file for: the first plotted column reads
\* df['Step'], which raises KeyError (caught, nothing written) without a Step column
create_plot(data, headers) ==
    IF kwStep \in Range(headers)
    THEN Range(PlotTypes) \cap Range(headers)
    ELSE {}

\* SectionToPlot taking the first section
SectionToPlot_First(sections) == sections[1]

\* the section handed to create_plot: sections[-1]
SectionToPlot(sections) == sections[Len(sections)]

\* PlotCalls without the have_plots test
PlotCalls_Always(i, files, latest) ==
    IF Analysed(i, files)
    THEN LET sections == parse_lammps_log(files[latest])
         IN  IF sections # <<>>
             THEN <<[headers |-> SectionToPlot(sections)[1],
                     data    |-> SectionToPlot(sections)[2]]>>
             ELSE <<>>
    ELSE <<>>

\* the calls of create_plot a poll makes for phase i (none or one), `latest`
\* being its latest log
PlotCalls(i, files, latest) ==
    IF Analysed(i, files) /\ plot_files[i] = {}
    THEN LET sections == parse_lammps_log(files[latest])
         IN  IF sections # <<>>
             THEN <<[headers |-> SectionToPlot(sections)[1],
                     data    |-> SectionToPlot(sections)[2]]>>
             ELSE <<>>
    ELSE <<>>

\* the plot files a poll writes for phase i
PlotsWritten(i, files, latest) ==
    LET calls == PlotCalls(i, files, latest)
    IN  IF calls # <<>> THEN create_plot(calls[1].data, calls[1].headers) ELSE {}

\* phase_info has no "current_log" key
NoLog == <<>>

\* PhaseIsActive as a substring test on the process ids
PhaseIsActive_Substring(i, active) ==
    \E k \in 1..Len(active) : Contains(active[k], Str(i))

\* str(i) in active_lammps
PhaseIsActive(i, active) == \E k \in 1..Len(active) : active[k] = Str(i)

\* Estimate with the process list consulted before the completion marker
Estimate_ActiveFirst(i, file, active) ==
    IF ~file.readable
    THEN [status |-> "Unknown", progress |-> 0]
    ELSE IF PhaseIsActive(i, active)
    THEN [status |-> "Running", progress |-> EstimatedProgress(file)]
    ELSE IF HasLoopTime(file)
    THEN [status |-> "Complete", progress |-> Pct(100)]
    ELSE [status |-> "Paused", progress |-> EstimatedProgress(file)]

\* Estimate with the clamp applied to a log holding the marker as well
Estimate_MarkerClamped(i, file, active) ==
    IF ~file.readable
    THEN [status |-> "Unknown", progress |-> 0]
    ELSE IF HasLoopTime(file)
    THEN [status |-> "Complete", progress |-> EstimatedProgress(file)]
    ELSE [status   |-> IF PhaseIsActive(i, active) THEN "Running" ELSE "Paused",
          progress |-> EstimatedProgress(file)]

\* "Estimate progress": the status and progress of an analysed phase
Estimate(i, file, active) ==
    IF ~file.readable
    THEN [status |-> "Unknown", progress |-> 0]
    ELSE IF HasLoopTime(file)
    THEN [status |-> "Complete", progress |-> Pct(100)]
    ELSE [status   |-> IF PhaseIsActive(i, active) THEN "Running" ELSE "Paused",
          progress |-> EstimatedProgress(file)]

\* PhaseInfo with "Estimate progress" nested under `if not have_plots`: a
\* phase whose plots an earlier call wrote keeps the default status
PhaseInfo_EstimateOnlyWhenPlotting(i, files, latest, active) ==
    LET default == [phase |-> i, status |-> "Not Started", progress |-> 0,
                    log_files |-> {}, plots |-> <<>>, current_log |-> NoLog]
    IN  IF ~phase_dir[i] \/ ~log_dir[i]
        THEN default
        ELSE IF GlobLogs(files) = {}
        THEN default
        ELSE IF complete_flag[i]
        THEN [default EXCEPT !.log_files = GlobLogs(files),
                             !.status = "Complete",
                             !.progress = Pct(100)]
        ELSE LET est == IF plot_files[i] = {}
                        THEN Estimate(i, files[latest], active)
                        ELSE [status |-> "Not Started", progress |-> 0]
             IN  [default EXCEPT
                     !.log_files = GlobLogs(files),
                     !.current_log = latest,
                     !.plots = PlotList(i, plot_files[i] \cup PlotsWritten(i, files, latest)),
                     !.status = est.status,
                     !.progress = est.progress]

\* the body of the loop over the phases, `files` being the phase's logs directory
PhaseInfo(i, files, latest, active) ==
    LET default == [phase |-> i, status |-> "Not Started", progress |-> 0,
                    log_files |-> {}, plots |-> <<>>, current_log |-> NoLog]
    IN  IF ~phase_dir[i] \/ ~log_dir[i]
        THEN default
        ELSE IF GlobLogs(files) = {}
        THEN default
        ELSE IF complete_flag[i]
        THEN [default EXCEPT !.log_files = GlobLogs(files),
                             !.status = "Complete",
                             !.progress = Pct(100)]
        ELSE LET est == Estimate(i, files[latest], active)
             IN  [default EXCEPT
                     !.log_files = GlobLogs(files),
                     !.current_log = latest,
                     !.plots = PlotList(i, plot_files[i] \cup PlotsWritten(i, files, latest)),
                     !.status = est.status,
                     !.progress = est.progress]

RECURSIVE SumProgress(_, _)
SumProgress(phases, n) ==
    IF n = 0 THEN 0 ELSE phases[n].progress + SumProgress(phases, n - 1)

\* OverallProgress with `completed_phases >= 3`
OverallProgress_ThreeSuffice(phases) ==
    IF Cardinality({i \in Phases : phases[i].status = "Complete"}) >= 3
    THEN Pct(100)
    ELSE SumProgress(phases, NumPhases) \div 4

\* "Calculate overall progress"
OverallProgress(phases) ==
    IF Cardinality({i \in Phases : phases[i].status = "Complete"}) = 4
    THEN Pct(100)
    ELSE SumProgress(phases, NumPhases) \div 4

\* the dictionary get_simulation_status returns; pids are the LAMMPS processes
\* pgrep finds, latest[i] the file max() picks for phase i
get_simulation_status(pids, pipeline_running, latest) ==
    LET active == PgrepLammps(pids)
        phases == [i \in Phases |-> PhaseInfo(i, log_files[i], latest[i], active)]
    IN  [phases           |-> phases,
         overall_progress |-> OverallProgress(phases),
         pipeline_running |-> pipeline_running,
         active_lammps    |-> Len(active)]

\* the process ids the LAMMPS processes can have
LammpsPids == {2, 13}

\* the choices max() has, one per phase (a fixed name where it is not called)
LatestChoices ==
    {l \in [Phases -> LogNames] :
        \A i \in Phases :
            IF Analysed(i, log_files[i])
            THEN l[i] \in LatestCandidates(log_files[i])
            ELSE l[i] = logA}

\* `pgrep -f pipeline.sh` exits 0: a pipeline process is alive
PgrepPipeline == pipeline_procs > 0

\* one call of get_simulation_status: it returns the status and writes the
\* plot files of the phases that had none
StatusCall(pids, latest) ==
    /\ status_result' = get_simulation_status(pids, PgrepPipeline, latest)
    /\ active_lammps' = PgrepLammps(pids)
    /\ plot_calls' = [i \in Phases |-> PlotCalls(i, log_files[i], latest[i])]
    /\ plot_files' =
           [i \in Phases |-> plot_files[i] \cup PlotsWritten(i, log_files[i], latest[i])]

\* a call of get_simulation_status outside any request
Poll ==
    \E pids \in SUBSET LammpsPids, latest \in LatestChoices :
        /\ StatusCall(pids, latest)
        /\ UNCHANGED <<repvars, poll, log_input, parse_result, phase_dir, log_dir, complete_flag,
                       log_files, webvars>>

(***************************************************************************)
(* The simulation pipeline, which owns the phase directories.              *)
(***************************************************************************)
lnLoopMid == <<"x", " ", "L", "o", "o", "p", " ", "t", "i", "m", "e">>

\* the contents a log file is given
SampleLogs ==
    {[lines |-> <<lnHeader2, lnRowC>>, pad |-> 0, readable |-> TRUE],
     [lines |-> <<lnHeader2, lnRowC>>, pad |-> 0, readable |-> FALSE],
     [lines |-> <<lnHeader2, lnRowC, lnHeader3, lnRowE>>, pad |-> 5000, readable |-> TRUE],
     [lines |-> <<lnHeader2, lnRowC, lnLoopMid>>, pad |-> 0, readable |-> TRUE],
     [lines |-> <<lnComment>>, pad |-> 12000, readable |-> TRUE]}

WithMtime(content, t) ==
    [lines |-> content.lines, pad |-> content.pad,
     readable |-> content.readable, mtime |-> t]

\* the filesystem changed: the status returned before is not held any more
Forget ==
    /\ status_result' = NoStatus
    /\ active_lammps' = <<>>
    /\ plot_calls' = NoCalls

MakePhaseDir(i) ==
    /\ ~phase_dir[i]
    /\ Cardinality({j \in Phases : phase_dir[j]}) < MaxPhaseDirs
    /\ phase_dir' = [phase_dir EXCEPT ![i] = TRUE]
    /\ Forget
    /\ UNCHANGED <<repvars, poll, log_input, parse_result, log_dir, complete_flag, log_files, plot_files, webvars>>

MakeLogDir(i) ==
    /\ phase_dir[i]
    /\ ~log_dir[i]
    /\ log_dir' = [log_dir EXCEPT ![i] = TRUE]
    /\ Forget
    /\ UNCHANGED <<repvars, poll, log_input, parse_result, phase_dir, complete_flag, log_files, plot_files, webvars>>

TouchComplete(i) ==
    /\ phase_dir[i]
    /\ ~complete_flag[i]
    /\ complete_flag' = [complete_flag EXCEPT ![i] = TRUE]
    /\ Forget
    /\ UNCHANGED <<repvars, poll, log_input, parse_result, phase_dir, log_dir, log_files, plot_files, webvars>>

WriteLog(i, n, content, t) ==
    /\ log_dir[i]
    /\ \/ n \in DOMAIN log_files[i]
       \/ Cardinality({<<j, m>> \in Phases \X LogNames : m \in DOMAIN log_files[j]})
              < MaxLogFiles
    /\ log_files' = [log_files EXCEPT ![i] = (n :> WithMtime(content, t)) @@ @]
    /\ Forget
    /\ UNCHANGED <<repvars, poll, log_input, parse_result, phase_dir, log_dir, complete_flag, plot_files, webvars>>

InitStatus ==
    /\ log_input = [lines |-> <<>>, pad |-> 0, readable |-> TRUE]
    /\ parse_result = NotCalled
    /\ FsEmpty
    /\ NotPolled
    /\ WebOff

NextStatus ==
    \/ Poll
    \/ \E i \in Phases : MakePhaseDir(i)
    \/ \E i \in Phases : MakeLogDir(i)
    \/ \E i \in Phases : TouchComplete(i)
    \/ \E i \in Phases, n \in LogNames, c \in SampleLogs, t \in 1..MaxMtime :
           WriteLog(i, n, c, t)

SpecStatus == InitStatus /\ [][NextStatus]_vars

(***************************************************************************)
(* Claims about get_simulation_status.  A returned status is held only     *)
(* while the filesystem is as the call left it, so the formulas relate it  *)
(* to the current filesystem.                                              *)
(***************************************************************************)
Polled == status_result # NoStatus

\* C1 as stated: a phase directory holding a COMPLETE file is reported Complete
\* with progress 100, whatever its logs directory holds.
C1_CompleteFlagMeansComplete ==
    Polled =>
        \A i \in Phases :
            (phase_dir[i] /\ complete_flag[i]) =>
                /\ status_result.phases[i].status = "Complete"
                /\ status_result.phases[i].progress = Pct(100)

\* C2 as stated: every phase whose status is neither 'Complete' nor
\* 'Not Started' has 10 <= progress <= 95.
C2_NonTerminalProgressClamped ==
    Polled =>
        \A i \in Phases :
            status_result.phases[i].status \notin {"Complete", "Not Started"} =>
                /\ Pct(10) <= status_result.phases[i].progress
                /\ status_result.phases[i].progress <= Pct(95)

\* C2 amended: every phase whose status is 'Running' or 'Paused' has
\* 10 <= progress <= 95; a phase whose status is 'Unknown' has progress 0.
C2_RunningPausedClamped ==
    Polled =>
        \A i \in Phases :
            /\ status_result.phases[i].status \in {"Running", "Paused"} =>
                   /\ Pct(10) <= status_result.phases[i].progress
                   /\ status_result.phases[i].progress <= Pct(95)
            /\ status_result.phases[i].status = "Unknown" =>
                   status_result.phases[i].progress = 0

\* C2 witness: a log of more than 9500 characters without the marker is
\* reported Running at exactly 95.
C2_Witness ==
    /\ Polled
    /\ \E i \in Phases :
           /\ status_result.phases[i].status = "Running"
           /\ status_result.phases[i].progress = Pct(95)
           /\ ContentLen(log_files[i][status_result.phases[i].current_log]) > 9500

\* the phase was analysed and its latest log was read and holds no marker
ReadWithoutMarker(i) ==
    /\ Analysed(i, log_files[i])
    /\ status_result.phases[i].current_log \in DOMAIN log_files[i]
    /\ log_files[i][status_result.phases[i].current_log].readable
    /\ ~HasLoopTime(log_files[i][status_result.phases[i].current_log])

\* C3 as stated (for a log that could be read): the phase is 'Running' exactly
\* when the phase number, as a decimal string, is a substring of one of the
\* process id strings pgrep returned, and 'Paused' otherwise.
C3_RunningIffSubstringOfPid ==
    Polled =>
        \A i \in Phases :
            ReadWithoutMarker(i) =>
                status_result.phases[i].status =
                    IF \E k \in 1..Len(active_lammps) : Contains(active_lammps[k], Str(i))
                    THEN "Running" ELSE "Paused"

\* C3 amended: for a phase without a COMPLETE sentinel whose latest log is
\* readable and holds no marker, the status is 'Running' exactly when the phase
\* number, as a decimal string, EQUALS one of the process id strings pgrep
\* returned (list membership, not substring), and 'Paused' otherwise.
C3_RunningIffEqualsPid ==
    Polled =>
        \A i \in Phases :
            ReadWithoutMarker(i) =>
                status_result.phases[i].status =
                    IF \E k \in 1..Len(active_lammps) : active_lammps[k] = Str(i)
                    THEN "Running" ELSE "Paused"

\* C3 witness: with the processes 2 and 13 alive, phase 2 is Running.
C3_Witness ==
    /\ Polled
    /\ active_lammps = << <<"2">>, <<"1", "3">> >>
    /\ ReadWithoutMarker(2)
    /\ status_result.phases[2].status = "Running"

\* C8: a phase with log files and no COMPLETE sentinel whose latest log is
\* readable and holds 'Loop time' anywhere is reported Complete with progress
\* 100, whatever the process list.
C8_LoopTimeMeansComplete ==
    Polled =>
        \A i \in Phases :
            Analysed(i, log_files[i]) =>
                /\ status_result.phases[i].current_log \in LatestCandidates(log_files[i])
                /\ (/\ log_files[i][status_result.phases[i].current_log].readable
                    /\ \E k \in 1..Len(log_files[i][status_result.phases[i].current_log].lines) :
                           Contains(log_files[i][status_result.phases[i].current_log].lines[k],
                                    kwLoopTime))
                   => /\ status_result.phases[i].status = "Complete"
                      /\ status_result.phases[i].progress = Pct(100)

\* C8 witness: phase 2 is Complete by the marker (found within a line) while a
\* process with id 2 is listed.
C8_Witness ==
    /\ Polled
    /\ Analysed(2, log_files[2])
    /\ \E k \in 1..Len(active_lammps) : active_lammps[k] = <<"2">>
    /\ lnLoopMid \in Range(log_files[2][status_result.phases[2].current_log].lines)
    /\ status_result.phases[2].status = "Complete"
    /\ status_result.phases[2].progress = Pct(100)

\* the logs directory with the content of file m replaced (its mtime kept)
WithContent(files, m, content) ==
    [files EXCEPT ![m] = WithMtime(content, files[m].mtime)]

\* C9: for a phase without a COMPLETE sentinel, current_log names a file of
\* the greatest modification time, and status and progress are those the same
\* call gives with any other log file of the phase holding any other content.
C9_OnlyLatestLogMatters ==
    Polled =>
        \A i \in Phases :
            Analysed(i, log_files[i]) =>
                LET cur == status_result.phases[i].current_log
                IN  /\ cur \in DOMAIN log_files[i]
                    /\ \A m \in DOMAIN log_files[i] :
                           log_files[i][m].mtime <= log_files[i][cur].mtime
                    /\ \A m \in DOMAIN log_files[i] \ {cur} :
                           \A c \in SampleLogs :
                               LET other == PhaseInfo(i, WithContent(log_files[i], m, c),
                                                      cur, active_lammps)
                               IN  /\ other.status = status_result.phases[i].status
                                   /\ other.progress = status_result.phases[i].progress
                                   /\ other.current_log = cur

\* C9 witness: an older log holding the marker beside a newer one without it;
\* the phase is reported from the newer one.
C9_Witness ==
    /\ Polled
    /\ \E i \in Phases :
           /\ Analysed(i, log_files[i])
           /\ DOMAIN log_files[i] = {logA, logB}
           /\ log_files[i][logA].mtime < log_files[i][logB].mtime
           /\ HasLoopTime(log_files[i][logA])
           /\ status_result.phases[i].current_log = logB
           /\ status_result.phases[i].status = "Paused"
           /\ status_result.phases[i].progress = Pct(10)


\* C14: whenever a poll calls create_plot for a phase, the headers and the
\* rows it hands over are those of the last section, in file order, that
\* parse_lammps_log returns for the phase's latest log; when the sections
\* differ, no earlier one is handed over.
C14_LastSectionIsPlotted ==
    Polled =>
        \A i \in Phases :
            plot_calls[i] # <<>> =>
                LET cur == status_result.phases[i].current_log
                    sections == parse_lammps_log(log_files[i][cur])
                IN  /\ Len(plot_calls[i]) = 1
                    /\ sections # <<>>
                    /\ plot_calls[i][1].headers = sections[Len(sections)][1]
                    /\ plot_calls[i][1].data = sections[Len(sections)][2]
                    /\ \A k \in 1..(Len(sections) - 1) :
                           sections[k] # sections[Len(sections)] =>
                               <<plot_calls[i][1].headers, plot_calls[i][1].data>> # sections[k]

\* C14 witness: the latest log of a phase yields two different sections and
\* create_plot was called, with the three headers of the second one.
C14_Witness ==
    /\ Polled
    /\ \E i \in Phases :
           /\ plot_calls[i] # <<>>
           /\ LET sections == parse_lammps_log(
                                  log_files[i][status_result.phases[i].current_log])
              IN  /\ Len(sections) = 2
                  /\ sections[1] # sections[2]
                  /\ Len(sections[1][1]) = 2
                  /\ Len(plot_calls[i][1].headers) = 3

(***************************************************************************)
(* get_simulation_status on a data directory in which all four phases may  *)
(* have run.                                                               *)
(***************************************************************************)
\* the logs directory of a phase that has run: one log
OverallLogs ==
    {logA :> WithMtime(c, 1) :
        c \in {[lines |-> <<lnHeader2, lnRowC>>, pad |-> 0, readable |-> FALSE],
               [lines |-> <<lnHeader2, lnRowC, lnHeader3, lnRowE>>, pad |-> 5000,
                readable |-> TRUE],
               [lines |-> <<lnHeader2, lnRowC, lnLoopMid>>, pad |-> 0, readable |-> TRUE],
               [lines |-> <<lnComment>>, pad |-> 12000, readable |-> TRUE]}}

InitOverall ==
    /\ log_input = [lines |-> <<>>, pad |-> 0, readable |-> TRUE]
    /\ parse_result = NotCalled
    /\ phase_dir \in [Phases -> BOOLEAN]
    /\ log_dir = phase_dir
    /\ complete_flag = [i \in Phases |-> FALSE]
    /\ log_files \in [Phases -> OverallLogs \cup {NoLogs}]
    /\ \A i \in Phases : log_files[i] = NoLogs <=> ~log_dir[i]
    /\ plot_files = [i \in Phases |-> {}]
    /\ NotPolled
    /\ WebOff

NextOverall ==
    \/ Poll
    \/ \E i \in Phases : TouchComplete(i)

SpecOverall == InitOverall /\ [][NextOverall]_vars

\* C18: in every result, each phase's status is one of the five names;
\* status is Complete exactly when progress is 100; Not Started and Unknown
\* come with progress 0; Running and Paused come with 10 <= progress <= 95.
C18_StatusProgressCoupling ==
    Polled =>
        \A i \in Phases :
            LET st == status_result.phases[i].status
                pr == status_result.phases[i].progress
            IN  /\ st \in {"Not Started", "Running", "Paused", "Complete", "Unknown"}
                /\ st = "Complete" <=> pr = Pct(100)
                /\ st \in {"Not Started", "Unknown"} => pr = 0
                /\ st \in {"Running", "Paused"} => (Pct(10) <= pr /\ pr <= Pct(95))

\* C18 witness: one result holds a phase Complete by the marker in a log of
\* few characters, a Running one, an Unknown one and a Paused one.
C18_Witness ==
    /\ Polled
    /\ \E i \in Phases :
           /\ status_result.phases[i].status = "Complete"
           /\ ~complete_flag[i]
           /\ ContentLen(log_files[i][logA]) < 1000
    /\ \E i \in Phases : status_result.phases[i].status = "Running"
    /\ \E i \in Phases : status_result.phases[i].status = "Unknown"
    /\ \E i \in Phases : status_result.phases[i].status = "Paused"

\* C19: in every result, overall_progress lies in [0, 100], is the arithmetic
\* mean of the four phase progress values, and is 100 exactly when all four
\* phases are Complete.
C19_OverallProgressIsMean ==
    Polled =>
        LET sum == status_result.phases[1].progress + status_result.phases[2].progress
                       + status_result.phases[3].progress + status_result.phases[4].progress
        IN  /\ 0 <= status_result.overall_progress
            /\ status_result.overall_progress <= Pct(100)
            /\ 4 * status_result.overall_progress = sum
            /\ status_result.overall_progress = Pct(100)
                   <=> \A i \in Phases : status_result.phases[i].status = "Complete"

\* C19 witnesses: all four phases Complete with overall progress 100, some by
\* the COMPLETE file and some by the marker
C19_Witness ==
    /\ Polled
    /\ \A i \in Phases : status_result.phases[i].status = "Complete"
    /\ \E i \in Phases : complete_flag[i]
    /\ \E i \in Phases : ~complete_flag[i]
    /\ status_result.overall_progress = Pct(100)

\* three phases Complete and one Unknown: overall progress 75
C19_ThreeComplete ==
    /\ Polled
    /\ Cardinality({i \in Phases : status_result.phases[i].status = "Complete"}) = 3
    /\ \E i \in Phases : status_result.phases[i].status = "Unknown"
    /\ status_result.overall_progress = Pct(75)

GrowPhase == 2

\* the lines the simulation appends
AppendedLines == {lnRowC, lnComment, lnLoopMid, lnHeader3}

InitGrow ==
    /\ log_input = [lines |-> <<>>, pad |-> 0, readable |-> TRUE]
    /\ parse_result = NotCalled
    /\ phase_dir = [i \in Phases |-> i = GrowPhase]
    /\ log_dir = [i \in Phases |-> i = GrowPhase]
    /\ complete_flag = [i \in Phases |-> FALSE]
    /\ log_files = [i \in Phases |->
                       IF i = GrowPhase
                       THEN logA :> WithMtime([lines |-> <<lnHeader2>>, pad |-> 0,
                                               readable |-> TRUE], 1)
                       ELSE NoLogs]
    /\ plot_files = [i \in Phases |-> {}]
    /\ NotPolled
    /\ WebOff

\* the simulation appends a line to the log
AppendLine(line) ==
    /\ Len(log_files[GrowPhase][logA].lines) <= MaxAppends
    /\ log_files' = [log_files EXCEPT ![GrowPhase][logA].lines = Append(@, line),
                                      ![GrowPhase][logA].mtime = MaxMtime]
    /\ UNCHANGED <<repvars, poll, log_input, parse_result, phase_dir, log_dir, complete_flag,
                   plot_files, active_lammps, status_result, plot_calls, webvars>>

\* the simulation appends PadStep empty lines to the log
AppendEmptyLines ==
    /\ log_files[GrowPhase][logA].pad + PadStep <= MaxPad
    /\ log_files' = [log_files EXCEPT ![GrowPhase][logA].pad = @ + PadStep,
                                      ![GrowPhase][logA].mtime = MaxMtime]
    /\ UNCHANGED <<repvars, poll, log_input, parse_result, phase_dir, log_dir, complete_flag,
                   plot_files, active_lammps, status_result, plot_calls, webvars>>

NextGrow ==
    \/ Poll
    \/ \E line \in AppendedLines : AppendLine(line)
    \/ AppendEmptyLines

SpecGrow == InitGrow /\ [][NextGrow]_vars

\* C28: while the one readable log of a phase without COMPLETE file is only
\* appended to, the progress a call reports for the phase is not less than
\* the progress the call before reported, and after a call has reported
\* Complete every call reports Complete.
C28_ProgressNeverDecreases ==
    [][(status_result # NoStatus /\ status_result' # NoStatus) =>
           /\ status_result'.phases[GrowPhase].progress
                  >= status_result.phases[GrowPhase].progress
           /\ status_result.phases[GrowPhase].status = "Complete" =>
                  status_result'.phases[GrowPhase].status = "Complete"]_vars

\* C28 witness: the phase was reported Complete from a log in which lines and
\* empty lines were appended after the marker.
C28_Witness ==
    /\ Polled
    /\ status_result.phases[GrowPhase].status = "Complete"
    /\ LET file == log_files[GrowPhase][logA]
       IN  /\ \E k \in 1..(Len(file.lines) - 1) : Contains(file.lines[k], kwLoopTime)
           /\ ~Contains(file.lines[Len(file.lines)], kwLoopTime)
           /\ file.pad > 0

\* the progress reported went from 10 over 40 to 95 as the log grew
C28_ProgressGrew ==
    /\ Polled
    /\ status_result.phases[GrowPhase].status \in {"Running", "Paused"}
    /\ status_result.phases[GrowPhase].progress > Pct(10)
    /\ status_result.phases[GrowPhase].progress < Pct(95)

\* the status and the progress of every phase in a returned dictionary
StatusAndProgress(result) ==
    [i \in Phases |-> <<result.phases[i].status, result.phases[i].progress>>]

\* the log max() picked for every phase (directory order, which decides among
\* files of equal mtime, is part of the filesystem state)
CurrentLogs(result) == [i \in Phases |-> result.phases[i].current_log]

\* C15: the status is derived afresh by every call.  (a) A call that follows
\* another one on the same filesystem and the same process list returns the
\* same status and progress for every phase, although the earlier call has
\* left its plot files and its result behind.  (b) What a call returns is what
\* the filesystem and the process list of that moment give: whatever an
\* earlier call returned, the result is that of a first call.
C15_StatusDerivedFresh ==
    /\ [](Polled =>
             \A i \in Phases :
                 LET again == PhaseInfo(i, log_files[i],
                                        status_result.phases[i].current_log, active_lammps)
                 IN  /\ again.status = status_result.phases[i].status
                     /\ again.progress = status_result.phases[i].progress)
    /\ [][(/\ Polled
           /\ status_result' # NoStatus
           /\ log_files' = log_files
           /\ active_lammps' = active_lammps
           /\ CurrentLogs(status_result') = CurrentLogs(status_result))
              => StatusAndProgress(status_result') = StatusAndProgress(status_result)]_vars
    /\ [][status_result' # NoStatus =>
              \E pids \in SUBSET LammpsPids :
                  \A i \in Phases :
                      LET first == Estimate(i, log_files[i][status_result'.phases[i].current_log],
                                            PgrepLammps(pids))
                      IN  Analysed(i, log_files[i]) =>
                              /\ status_result'.phases[i].status = first.status
                              /\ status_result'.phases[i].progress = first.progress]_vars

\* C15 witness: a call has returned Running or Paused for a phase whose plots
\* an earlier call had written (this call made no plot).
C15_Witness ==
    /\ Polled
    /\ \E i \in Phases :
           /\ Analysed(i, log_files[i])
           /\ plot_files[i] # {}
           /\ plot_calls[i] = <<>>
           /\ status_result.phases[i].status \in {"Running", "Paused"}

(***************************************************************************)
(* The HTTP surface: login, logout and the routes behind require_auth.     *)
(* A request is served atomically.  The session of a client is the signed  *)
(* session cookie Flask keeps for it: only a handler changes it.           *)
(***************************************************************************)
pathIndex == <<"/">>
pathApi == <<"/", "a", "p", "i", "/">>
pathApiStatus == pathApi \o <<"s", "t", "a", "t", "u", "s">>
pathApiLaunch == pathApi \o <<"l", "a", "u", "n", "c", "h">>
pathApiDashboardUrl == pathApi \o <<"d", "a", "s", "h", "b", "o", "a", "r", "d", "-", "u", "r", "l">>
pathPlot == <<"/", "p", "l", "o", "t", "/">>
pathLog == <<"/", "l", "o", "g", "/">>
pathLogin == <<"/", "l", "o", "g", "i", "n">>
pathLogout == <<"/", "l", "o", "g", "o", "u", "t">>
pathTemplateLogin == <<"/", "t", "e", "m", "p", "l", "a", "t", "e", "/", "l", "o", "g", "i", "n">>
pathTemplate == <<"/", "t", "e", "m", "p", "l", "a", "t", "e">>
pipelineLogName == <<"p", "i", "p", "e", "l", "i", "n", "e", ".", "l", "o", "g">>

\* a value of ACCESS_KEY, and the keys a client may submit
ACCESS_KEY == <<"a", "b">>
KeyInputs == {ACCESS_KEY, <<"b", "a">>}

\* ord(c) of the characters keys are made of
Ord(c) == CASE c = "a" -> 97 [] c = "b" -> 98

RECURSIVE DigestFrom(_, _)
DigestFrom(h, text) ==
    IF text = <<>> THEN h
    ELSE DigestFrom((h * 31 + Ord(Head(text))) % 251, Tail(text))

\* hashlib.sha256(text.encode()).hexdigest(): a digest that differs for the
\* texts of KeyInputs and the empty text
Sha256(text) == DigestFrom(7, text)

KEY_HASH == Sha256(ACCESS_KEY)

\* a value of remote_url when remote access is set up
TunnelUrl == <<"h", "t", "t", "p", "s", ":", "/", "/", "t">>

\* os.path.exists(os.path.join(PLOT_DIR, filename))
PlotExists(filename) ==
    \E i \in Phases : \E col \in plot_files[i] : PlotFile(i, col) = filename

Body(kind) == [kind |-> kind, key |-> <<>>]

\* jsonify({"error": "Unauthorized access"}), 401
Unauthorized ==
    [code |-> 401, body |-> Body("Unauthorized access"), location |-> NoLocation,
     handler |-> "none"]

\* redirect(...): the target is held as its path and its query arguments
Redirect(path, args, handler) ==
    [code |-> 302, body |-> Body("redirect"), location |-> [path |-> path, args |-> args],
     handler |-> handler]

Ok(kind, handler) ==
    [code |-> 200, body |-> Body(kind), location |-> NoLocation, handler |-> handler]

\* an exception left a view function
ServerError(handler) ==
    [code |-> 500, body |-> Body("Internal Server Error"), location |-> NoLocation,
     handler |-> handler]

\* 'authenticated' in session and session['authenticated']
Authenticated(sess) == "authenticated" \in DOMAIN sess /\ sess["authenticated"]

\* require_auth with the check skipped for the paths under /api/
require_auth_ApiOpen(sess, path, view) ==
    IF ~Authenticated(sess) /\ ~StartsWith(path, pathApi)
    THEN Redirect(pathLogin, Set(EmptyDict, "next", path), "none")
    ELSE view

\* require_auth without the test of the '/api/' prefix
require_auth_AlwaysRedirects(sess, path, view) ==
    IF ~Authenticated(sess)
    THEN Redirect(pathLogin, Set(EmptyDict, "next", path), "none")
    ELSE view

\* the decorator: `view` is the response of the wrapped function, produced
\* only for an authenticated session
require_auth(sess, path, view) ==
    IF ~Authenticated(sess)
    THEN IF StartsWith(path, pathApi)
         THEN Unauthorized
         ELSE Redirect(pathLogin, Set(EmptyDict, "next", path), "none")
    ELSE view

Serve(c, method, path, form, args, resp) ==
    /\ request' = [client |-> c, method |-> method, path |-> path, form |-> form,
                   args |-> args]
    /\ response' = resp

\* render_template('login.html', ...): the templates folder may lack the file
RenderLogin(kind, found) == IF found THEN Ok(kind, "login") ELSE ServerError("login")

\* GET /login
LoginGet(c) ==
    \E found \in BOOLEAN :
        /\ Serve(c, "GET", pathLogin, EmptyDict, EmptyDict, RenderLogin("login.html", found))
        /\ UNCHANGED <<repvars, poll, log_input, parse_result, fsvars, active_lammps, status_result, plot_calls,
                       session, pipeline_script, pipeline_procs, pipeline_log, remote_url>>

\* the session a POST /login leaves
LoginSession(sess, form) ==
    IF Sha256(Get(form, "access_key", <<>>)) = KEY_HASH
    THEN Set(Set(sess, "authenticated", TRUE), "_permanent", TRUE)
    ELSE sess

\* POST /login
LoginPost(c, form, args) ==
    /\ IF Sha256(Get(form, "access_key", <<>>)) = KEY_HASH
       THEN Serve(c, "POST", pathLogin, form, args,
                  Redirect(Get(args, "next", pathIndex), EmptyDict, "login"))
       ELSE \E found \in BOOLEAN :
                Serve(c, "POST", pathLogin, form, args,
                      RenderLogin("login.html: Invalid access key", found))
    /\ session' = [session EXCEPT ![c] = LoginSession(@, form)]
    /\ UNCHANGED <<repvars, poll, log_input, parse_result, fsvars, active_lammps, status_result, plot_calls,
                   pipeline_script, pipeline_procs, pipeline_log, remote_url>>

\* Logout without the session.pop
Logout_KeepsSession(c) ==
    /\ Serve(c, "GET", pathLogout, EmptyDict, EmptyDict,
             Redirect(pathLogin, EmptyDict, "logout"))
    /\ UNCHANGED <<repvars, poll, log_input, parse_result, fsvars, active_lammps, status_result, plot_calls,
                   session, pipeline_script, pipeline_procs, pipeline_log, remote_url>>

\* GET /logout
Logout(c) ==
    /\ Serve(c, "GET", pathLogout, EmptyDict, EmptyDict,
             Redirect(pathLogin, EmptyDict, "logout"))
    /\ session' = [session EXCEPT ![c] = Pop(@, "authenticated")]
    /\ UNCHANGED <<repvars, poll, log_input, parse_result, fsvars, active_lammps, status_result, plot_calls,
                   pipeline_script, pipeline_procs, pipeline_log, remote_url>>

\* GET /
Index(c) ==
    /\ Serve(c, "GET", pathIndex, EmptyDict, EmptyDict,
             require_auth(session[c], pathIndex, Ok("dashboard", "index")))
    /\ UNCHANGED <<repvars, poll, log_input, parse_result, fsvars, active_lammps, status_result, plot_calls,
                   session, pipeline_script, pipeline_procs, pipeline_log, remote_url>>

\* GET /api/status
ApiStatus(c) ==
    LET resp == require_auth(session[c], pathApiStatus, Ok("status", "api_status"))
    IN  /\ Serve(c, "GET", pathApiStatus, EmptyDict, EmptyDict, resp)
        /\ IF resp.handler = "api_status"
           THEN \E pids \in SUBSET LammpsPids, latest \in LatestChoices :
                    StatusCall(pids, latest)
           ELSE UNCHANGED <<status_result, plot_calls, active_lammps, plot_files>>
        /\ UNCHANGED <<repvars, poll, log_input, parse_result, phase_dir, log_dir, complete_flag,
                       log_files, session, pipeline_script, pipeline_procs, pipeline_log,
                       remote_url>>

\* LaunchView without the except clause: the exception leaves the view
LaunchView_Propagates(started) ==
    IF pipeline_script
    THEN IF started
         THEN Ok("success: Pipeline launched", "api_launch")
         ELSE ServerError("api_launch")
    ELSE Ok("error: Pipeline script not found", "api_launch")

\* the response of api_launch; `started` tells whether Popen succeeded
LaunchView(started) ==
    IF pipeline_script
    THEN IF started
         THEN Ok("success: Pipeline launched", "api_launch")
         ELSE Ok("error: exception", "api_launch")
    ELSE Ok("error: Pipeline script not found", "api_launch")

\* ApiLaunch waiting for the script (subprocess.run in place of Popen): the
\* answer is given when the pipeline has written its log and is gone
ApiLaunch_Waits(c) ==
    \E started \in BOOLEAN :
        LET resp == require_auth(session[c], pathApiLaunch, LaunchView(started))
        IN  /\ started => pipeline_procs < MaxPipelines
            /\ Serve(c, "POST", pathApiLaunch, EmptyDict, EmptyDict, resp)
            /\ IF resp.handler = "api_launch" /\ pipeline_script
               THEN /\ pipeline_log' = IF started THEN "written" ELSE "empty"
                    /\ pipeline_procs' = pipeline_procs
               ELSE UNCHANGED <<pipeline_log, pipeline_procs>>
            /\ UNCHANGED <<repvars, poll, log_input, parse_result, fsvars, active_lammps, status_result, plot_calls,
                           session, pipeline_script, remote_url>>

\* ApiLaunch refusing to start the script while a pipeline process is alive
ApiLaunch_Exclusive(c) ==
    \E started \in BOOLEAN :
        LET resp == require_auth(session[c], pathApiLaunch,
                                 LaunchView(started /\ pipeline_procs = 0))
        IN  /\ started => pipeline_procs < MaxPipelines
            /\ Serve(c, "POST", pathApiLaunch, EmptyDict, EmptyDict, resp)
            /\ IF resp.handler = "api_launch" /\ pipeline_script /\ pipeline_procs = 0
               THEN /\ pipeline_log' = "empty"
                    /\ pipeline_procs' = IF started THEN pipeline_procs + 1
                                         ELSE pipeline_procs
               ELSE UNCHANGED <<pipeline_log, pipeline_procs>>
            /\ UNCHANGED <<repvars, poll, log_input, parse_result, fsvars, active_lammps, status_result, plot_calls,
                           session, pipeline_script, remote_url>>

\* POST /api/launch: open(pipeline.log, "w") truncates the log before Popen
\* starts the script in a session of its own
ApiLaunch(c) ==
    \E started \in BOOLEAN :
        LET resp == require_auth(session[c], pathApiLaunch, LaunchView(started))
        IN  /\ started => pipeline_procs < MaxPipelines
            /\ Serve(c, "POST", pathApiLaunch, EmptyDict, EmptyDict, resp)
            /\ IF resp.handler = "api_launch" /\ pipeline_script
               THEN /\ pipeline_log' = "empty"
                    /\ pipeline_procs' = IF started THEN pipeline_procs + 1
                                         ELSE pipeline_procs
               ELSE UNCHANGED <<pipeline_log, pipeline_procs>>
            /\ UNCHANGED <<repvars, poll, log_input, parse_result, fsvars, active_lammps, status_result, plot_calls,
                           session, pipeline_script, remote_url>>

\* the file names asked of /plot/
PlotRequests == {PlotFile(1, kwTemp), PlotFile(2, colPress)}

\* GET /plot/<filename>: send_file raises when the file does not exist
GetPlot(c, filename) ==
    /\ Serve(c, "GET", pathPlot \o filename, EmptyDict, EmptyDict,
             require_auth(session[c], pathPlot \o filename,
                          IF PlotExists(filename) THEN Ok("plot", "get_plot")
                          ELSE ServerError("get_plot")))
    /\ UNCHANGED <<repvars, poll, log_input, parse_result, fsvars, active_lammps, status_result, plot_calls,
                   session, pipeline_script, pipeline_procs, pipeline_log, remote_url>>

\* the phases whose logs directory holds the file, i.e. os.path.exists(log_path)
LogHolders(filename) ==
    {i \in Phases : phase_dir[i] /\ log_dir[i] /\ filename \in DOMAIN log_files[i]}

\* the response of get_log
LogView(filename) ==
    IF LogHolders(filename) # {}
    THEN LET i == CHOOSE j \in LogHolders(filename) : \A k \in LogHolders(filename) : j <= k
         IN  IF log_files[i][filename].readable
             THEN Ok("content", "get_log")
             ELSE Ok("error: exception", "get_log")
    ELSE IF filename = pipelineLogName /\ pipeline_log # "absent"
    THEN Ok("content", "get_log")
    ELSE Ok("error: Log file not found", "get_log")

\* the file names asked of /log/
LogRequests == LogNames \cup {pipelineLogName}

\* GET /log/<filename>
GetLog(c, filename) ==
    /\ Serve(c, "GET", pathLog \o filename, EmptyDict, EmptyDict,
             require_auth(session[c], pathLog \o filename, LogView(filename)))
    /\ UNCHANGED <<repvars, poll, log_input, parse_result, fsvars, active_lammps, status_result, plot_calls,
                   session, pipeline_script, pipeline_procs, pipeline_log, remote_url>>

\* GET /api/dashboard-url, which is not behind require_auth
GetDashboardUrl(c) ==
    /\ Serve(c, "GET", pathApiDashboardUrl, EmptyDict, EmptyDict,
             [code |-> 200,
              body |-> [kind |-> "urls",
                        key |-> IF remote_url # NoUrl THEN ACCESS_KEY ELSE <<>>],
              location |-> NoLocation, handler |-> "get_dashboard_url"])
    /\ UNCHANGED <<repvars, poll, log_input, parse_result, fsvars, active_lammps, status_result, plot_calls,
                   session, pipeline_script, pipeline_procs, pipeline_log, remote_url>>

\* GET /template/login returns the page text; GET /template renders login.html
LoginTemplate(c, path) ==
    \E found \in BOOLEAN :
        /\ path \in {pathTemplateLogin, pathTemplate}
        /\ path = pathTemplateLogin => found
        /\ Serve(c, "GET", path, EmptyDict, EmptyDict,
                 IF found
                 THEN Ok("login.html",
                         IF path = pathTemplate THEN "render_login_template"
                         ELSE "get_login_template")
                 ELSE ServerError("render_login_template"))
        /\ UNCHANGED <<repvars, poll, log_input, parse_result, fsvars, active_lammps, status_result, plot_calls,
                       session, pipeline_script, pipeline_procs, pipeline_log, remote_url>>

\* the methods the routes are registered for
RouteMethods(path) ==
    IF path = pathLogin THEN {"GET", "POST"}
    ELSE IF path = pathApiLaunch THEN {"POST"}
    ELSE {"GET"}

\* a request with a method its route does not accept: no view function runs
MethodNotAllowed(c, method, path) ==
    /\ method \notin RouteMethods(path)
    /\ Serve(c, method, path, EmptyDict, EmptyDict,
             [code |-> 405, body |-> Body("Method Not Allowed"), location |-> NoLocation,
              handler |-> "none"])
    /\ UNCHANGED <<repvars, poll, log_input, parse_result, fsvars, active_lammps, status_result, plot_calls,
                   session, pipeline_script, pipeline_procs, pipeline_log, remote_url>>

\* a pipeline process ends
PipelineExits ==
    /\ pipeline_procs > 0
    /\ pipeline_procs' = pipeline_procs - 1
    /\ UNCHANGED <<repvars, poll, log_input, parse_result, fsvars, active_lammps, status_result, plot_calls,
                   session, request, response, pipeline_script, pipeline_log, remote_url>>

\* a pipeline process writes to its standard output, the open pipeline.log
PipelineWrites ==
    /\ pipeline_procs > 0
    /\ pipeline_log = "empty"
    /\ pipeline_log' = "written"
    /\ UNCHANGED <<repvars, poll, log_input, parse_result, fsvars, active_lammps, status_result, plot_calls,
                   session, request, response, pipeline_script, pipeline_procs, remote_url>>

\* the data directory the dashboard is started on: phase 1 with one log of
\* two sections
WebLogs ==
    [i \in Phases |->
        IF i = 1
        THEN logA :> WithMtime([lines |-> <<lnHeader2, lnRowC, lnHeader3, lnRowE>>,
                                pad |-> 0, readable |-> TRUE], 1)
        ELSE NoLogs]

InitWeb ==
    /\ log_input = [lines |-> <<>>, pad |-> 0, readable |-> TRUE]
    /\ parse_result = NotCalled
    /\ phase_dir = [i \in Phases |-> i = 1]
    /\ log_dir = [i \in Phases |-> i = 1]
    /\ log_files = WebLogs
    /\ complete_flag = [i \in Phases |-> FALSE]
    /\ plot_files = [i \in Phases |-> {}]
    /\ NotPolled
    /\ WebIdle
    /\ pipeline_script \in BOOLEAN
    /\ remote_url \in {NoUrl, TunnelUrl}
    /\ ReportOff

Forms == {EmptyDict} \cup {Set(EmptyDict, "access_key", k) : k \in KeyInputs}
NextArgs == {EmptyDict, Set(EmptyDict, "next", pathApiStatus)}

NextWeb ==
    \/ \E c \in Clients : LoginGet(c)
    \/ \E c \in Clients, form \in Forms, args \in NextArgs : LoginPost(c, form, args)
    \/ \E c \in Clients : Logout(c)
    \/ \E c \in Clients : Index(c)
    \/ \E c \in Clients : ApiStatus(c)
    \/ \E c \in Clients : ApiLaunch(c)
    \/ \E c \in Clients, f \in PlotRequests : GetPlot(c, f)
    \/ \E c \in Clients, f \in LogRequests : GetLog(c, f)
    \/ \E c \in Clients : GetDashboardUrl(c)
    \/ \E c \in Clients, p \in {pathTemplateLogin, pathTemplate} : LoginTemplate(c, p)
    \/ \E c \in Clients, m \in {"GET", "POST"}, p \in {pathApiLaunch, pathLogout} :
           MethodNotAllowed(c, m, p)
    \/ PipelineExits
    \/ PipelineWrites

SpecWeb == InitWeb /\ [][NextWeb]_vars

(***************************************************************************)
(* Claims about authentication.                                            *)
(***************************************************************************)
\* the view functions behind require_auth
ProtectedHandlers == {"index", "api_status", "api_launch", "get_plot", "get_log"}

\* the last request was a POST to /login with a key of digest KEY_HASH
MatchingLoginPost(req, c) ==
    /\ req.client = c
    /\ req.method = "POST"
    /\ req.path = pathLogin
    /\ Sha256(Get(req.form, "access_key", <<>>)) = KEY_HASH

\* C10: a view function of a protected endpoint runs only for a session whose
\* 'authenticated' flag is true; a session's flag becomes true only by a step
\* that serves a POST /login whose access_key has digest KEY_HASH; a pipeline
\* process is started, and pipeline.log truncated, only by a POST /api/launch
\* of an authenticated session.
C10_ProtectedOnlyWhenAuthenticated ==
    /\ [](response.handler \in ProtectedHandlers =>
              Authenticated(session[request.client]))
    /\ [][\A c \in Clients :
              (~Authenticated(session[c]) /\ Authenticated(session'[c])) =>
                  MatchingLoginPost(request', c)]_vars
    /\ [][(pipeline_procs' > pipeline_procs \/ (pipeline_log' # pipeline_log /\ pipeline_log' = "empty")) =>
              /\ request'.path = pathApiLaunch
              /\ request'.method = "POST"
              /\ Authenticated(session[request'.client])]_vars

\* C10 witness: one client has logged in and launched the pipeline; the
\* launch request of the other, which never logged in, was answered 401.
C10_Witness ==
    /\ pipeline_procs = 1
    /\ request.path = pathApiLaunch
    /\ response.code = 401
    /\ response.handler = "none"
    /\ ~Authenticated(session[request.client])
    /\ \E c \in Clients : Authenticated(session[c])


\* the answer of a launch that started the script
LaunchSucceeded(resp) ==
    resp.handler = "api_launch" /\ resp.body.kind = "success: Pipeline launched"

\* C16: POST /api/launch is fire-and-forget.  (a) A step that answers
\* 'success' has started one more pipeline process, which is still alive when
\* the answer is given; (b) a pipeline process that writes its log or exits
\* changes no session, request or response: the program holds nothing that
\* follows the process; (c) the pipeline_running a later status call reports
\* is what pgrep finds at the time of that call.
C16_LaunchIsFireAndForget ==
    /\ [][(/\ LaunchSucceeded(response')
           /\ \/ request' # request
              \/ response' # response
              \/ pipeline_procs' > pipeline_procs)
              => /\ pipeline_script
                 /\ pipeline_procs' = pipeline_procs + 1]_vars
    /\ [][(\/ pipeline_procs' < pipeline_procs
           \/ (pipeline_log' # pipeline_log /\ pipeline_log' = "written"))
              => UNCHANGED <<session, request, response, status_result>>]_vars
    /\ [][(status_result' # status_result /\ status_result' # NoStatus)
              => status_result'.pipeline_running = (pipeline_procs > 0)]_vars

\* C16 witness: the last answer is the 'success' of a launch, and the
\* pipeline it started has since written its log and exited.
C16_Witness ==
    /\ LaunchSucceeded(response)
    /\ pipeline_procs = 0
    /\ pipeline_log = "written"

\* the paths of the protected endpoints
ProtectedPath(path) ==
    \/ path \in {pathIndex, pathApiStatus, pathApiLaunch}
    \/ StartsWith(path, pathPlot)
    \/ StartsWith(path, pathLog)

\* the request was refused by the decorator
Denied(resp) == resp.handler = "none" /\ resp.code \in {401, 302}

\* the last request was a POST to /login with a key of another digest
WrongLoginPost(req) ==
    /\ req.method = "POST"
    /\ req.path = pathLogin
    /\ Sha256(Get(req.form, "access_key", <<>>)) # KEY_HASH

\* C22: (a) /logout answers with the redirect to the login page and leaves
\* the session unauthenticated, whether or not it was authenticated before;
\* while a session is unauthenticated its requests to protected endpoints
\* are denied, and it becomes authenticated again only by a POST /login with
\* the matching key; (b) a POST /login with a wrong key leaves the session
\* as it was, authenticated or not.
C22_LogoutDeniesUntilLogin ==
    /\ [](response.handler = "logout" =>
              /\ response.code = 302
              /\ response.location.path = pathLogin
              /\ ~Authenticated(session[request.client]))
    /\ []((/\ request # NoRequest
           /\ ~Authenticated(session[request.client])
           /\ request.method \in RouteMethods(request.path)
           /\ ProtectedPath(request.path)) => Denied(response))
    /\ [][\A c \in Clients :
              (~Authenticated(session[c]) /\ Authenticated(session'[c])) =>
                  (MatchingLoginPost(request', c) /\ request' # request)]_vars
    /\ [][WrongLoginPost(request') =>
              session'[request'.client] = session[request'.client]]_vars

\* C22 witness: a session that had logged in and then out (the '_permanent'
\* entry of the login is still there) is refused /api/status.
C22_Witness ==
    /\ request.path = pathApiStatus
    /\ Denied(response)
    /\ ~Authenticated(session[request.client])
    /\ "_permanent" \in DOMAIN session[request.client]

\* an authenticated session has posted a wrong key and is still authenticated
C22_WrongKeyKeepsLogin ==
    /\ WrongLoginPost(request)
    /\ Authenticated(session[request.client])

\* C23: a request of an unauthenticated session to a protected endpoint is
\* answered 401 with the JSON error when its path starts with '/api/', and
\* otherwise with a redirect to the login page carrying next=<requested
\* path>; the step that gives such an answer runs no view function: it
\* changes no session, starts no pipeline, writes no file and computes no
\* status.
C23_DeniedByPathKind ==
    /\ []((/\ request # NoRequest
           /\ ~Authenticated(session[request.client])
           /\ request.method \in RouteMethods(request.path)
           /\ ProtectedPath(request.path)) =>
              /\ response.handler = "none"
              /\ IF StartsWith(request.path, pathApi)
                 THEN /\ response.code = 401
                      /\ response.body.kind = "Unauthorized access"
                      /\ response.location = NoLocation
                 ELSE /\ response.code = 302
                      /\ response.location.path = pathLogin
                      /\ response.location.args = Set(EmptyDict, "next", request.path))
    /\ [][(/\ Denied(response')
           /\ ProtectedPath(request'.path)
           /\ (request' # request \/ response' # response)) =>
              UNCHANGED <<session, pipeline_procs, pipeline_log, fsvars, status_result,
                          plot_calls>>]_vars

\* C23 witness: an unauthenticated request for a plot file was redirected to
\* the login page with next=/plot/<file>.
C23_Witness ==
    /\ StartsWith(request.path, pathPlot)
    /\ ~Authenticated(session[request.client])
    /\ response.code = 302
    /\ response.location.path = pathLogin
    /\ response.location.args = Set(EmptyDict, "next", request.path)

\* an unauthenticated POST /api/launch was answered 401 with the JSON error
C23_ApiRefused ==
    /\ request.path = pathApiLaunch
    /\ request.method = "POST"
    /\ ~Authenticated(session[request.client])
    /\ response.code = 401
    /\ response.body.kind = "Unauthorized access"

\* a step that serves a request to the view function api_launch
LaunchServed ==
    /\ response'.handler = "api_launch"
    /\ (request' # request \/ response' # response \/ pipeline_procs' > pipeline_procs)

\* C26 as stated: every authenticated POST /api/launch made while the
\* pipeline script exists starts a new pipeline process and truncates
\* pipeline.log.
C26_EveryLaunchStartsProcess ==
    [][(LaunchServed /\ pipeline_script) =>
           /\ pipeline_procs' = pipeline_procs + 1
           /\ pipeline_log' = "empty"]_vars

\* C26 amended: every authenticated POST /api/launch that is answered
\* 'success' has started a new pipeline process and truncated pipeline.log,
\* whether or not an earlier pipeline process is still running; one that is
\* not answered 'success' has started none.  Launches do not exclude one
\* another: while the script exists an authenticated session can be answered
\* 'success' with pipeline processes already running.
C26_LaunchesNotExclusive ==
    /\ [][LaunchServed =>
              IF LaunchSucceeded(response')
              THEN /\ pipeline_script
                   /\ pipeline_procs' = pipeline_procs + 1
                   /\ pipeline_log' = "empty"
              ELSE pipeline_procs' = pipeline_procs]_vars
    /\ [](\A c \in Clients :
              (/\ Authenticated(session[c])
               /\ pipeline_script
               /\ pipeline_procs \in 1..(MaxPipelines - 1)) =>
                  ENABLED (ApiLaunch(c) /\ LaunchSucceeded(response')))

\* C26 witness: two accepted launches have left two pipeline processes
\* running, and pipeline.log, truncated by the second launch, has been
\* written to since.
C26_Witness ==
    /\ LaunchSucceeded(response)
    /\ pipeline_procs = 2
    /\ pipeline_log = "written"

\* C27: a POST /api/launch served while the pipeline script does not exist
\* is answered 200 with the error 'Pipeline script not found', starts no
\* process and leaves pipeline.log as it is; and api_launch never lets an
\* exception out: its answer is always a 200 JSON, 'success' or 'error', and
\* an 'error' answer comes with no new process.
C27_LaunchErrorsAreAnswers ==
    /\ [][(LaunchServed /\ ~pipeline_script) =>
              /\ response'.code = 200
              /\ response'.body.kind = "error: Pipeline script not found"
              /\ UNCHANGED <<pipeline_procs, pipeline_log>>]_vars
    /\ [](response.handler = "api_launch" =>
              /\ response.code = 200
              /\ response.body.kind \in {"success: Pipeline launched", "error: exception",
                                         "error: Pipeline script not found"})
    /\ [][(LaunchServed /\ response'.body.kind = "error: exception") =>
              pipeline_procs' = pipeline_procs]_vars

\* C27 witness: without a pipeline script, an authenticated launch was
\* answered 'Pipeline script not found'; no process runs and pipeline.log
\* does not exist.
C27_Witness ==
    /\ ~pipeline_script
    /\ request.path = pathApiLaunch
    /\ Authenticated(session[request.client])
    /\ response.code = 200
    /\ response.body.kind = "error: Pipeline script not found"
    /\ pipeline_procs = 0
    /\ pipeline_log = "absent"

\* a launch during which an exception was raised was answered 'error'
C27_ExceptionAnswered ==
    /\ pipeline_script
    /\ response.handler = "api_launch"
    /\ response.code = 200
    /\ response.body.kind = "error: exception"

\* the response carries the access key
CarriesKey(resp) ==
    \/ resp.body.key = ACCESS_KEY
    \/ \E a \in DOMAIN resp.location.args : resp.location.args[a] = ACCESS_KEY

\* C21 as stated: whatever the endpoint and whatever remote_url, the
\* response to a request of a session that is not authenticated does not
\* contain ACCESS_KEY.
C21_KeyNeverSentUnauthenticated ==
    (request # NoRequest /\ ~Authenticated(session[request.client])) =>
        ~CarriesKey(response)

\* the same for every endpoint but /api/dashboard-url
C21_HoldsOutsideDashboardUrl ==
    (/\ request # NoRequest
     /\ ~Authenticated(session[request.client])
     /\ request.path # pathApiDashboardUrl) =>
        ~CarriesKey(response)

(***************************************************************************)
(* The report script, py_phase4.py.  Numbers read from the data files are  *)
(* integers; a computed statistic is an exact fraction [num, den], and a   *)
(* value formatted with f"{v:.2f}" is the integer number of hundredths it  *)
(* prints.                                                                 *)
(***************************************************************************)
\* np.loadtxt(filename, skiprows=1) of the data rows of a file: the result is
\* squeezed, so one row or one column gives a vector and one value a scalar.
\* vec holds the values of a 0-d or 1-d array, mat the rows of a 2-d one.
Loadtxt(rows) ==
    IF rows = <<>>
    THEN [ndim |-> 1, vec |-> <<>>, mat |-> <<>>]
    ELSE IF Len(rows) = 1
    THEN [ndim |-> IF Len(rows[1]) = 1 THEN 0 ELSE 1, vec |-> rows[1], mat |-> <<>>]
    ELSE IF Len(rows[1]) = 1
    THEN [ndim |-> 1, vec |-> [k \in 1..Len(rows) |-> rows[k][1]], mat |-> <<>>]
    ELSE [ndim |-> 2, vec |-> <<>>, mat |-> rows]

\* the value load_data returns for None
None == [ndim |-> -1, vec |-> <<>>, mat |-> <<>>]

\* load_data(filename)
load_data(file) == IF file.exists THEN Loadtxt(file.rows) ELSE None

\* a[:, j] of a 2-d array, j counted from 0
Column(a, j) == [k \in 1..Len(a.mat) |-> a.mat[k][j + 1]]

\* a.shape[1] of a 2-d array
NumColumns(a) == Len(a.mat[1])

RECURSIVE SumSeq(_)
SumSeq(xs) == IF xs = <<>> THEN 0 ELSE Head(xs) + SumSeq(Tail(xs))

RECURSIVE InsertSorted(_, _)
InsertSorted(x, xs) ==
    IF xs = <<>> THEN <<x>>
    ELSE IF x <= Head(xs) THEN <<x>> \o xs
    ELSE <<Head(xs)>> \o InsertSorted(x, Tail(xs))

RECURSIVE Sorted(_)
\* np.sort
Sorted(xs) == IF xs = <<>> THEN <<>> ELSE InsertSorted(Head(xs), Sorted(Tail(xs)))

Frac(num, den) == [num |-> num, den |-> den]

\* two fractions denote the same number
SameValue(p, q) == p.num * q.den = q.num * p.den

\* np.mean
Mean(xs) == Frac(SumSeq(xs), Len(xs))

\* np.median: the middle value, or the mean of the two middle values
Median(xs) ==
    LET srt == Sorted(xs)
        n == Len(xs)
    IN  IF n % 2 = 1 THEN Frac(srt[(n + 1) \div 2], 1)
        ELSE Frac(srt[n \div 2] + srt[n \div 2 + 1], 2)

\* np.var: the mean of the squared deviations from the mean (ddof = 0)
Variance(xs) ==
    LET n == Len(xs)
        total == SumSeq(xs)
    IN  Frac(SumSeq([k \in 1..n |-> (n * xs[k] - total) * (n * xs[k] - total)]), n * n * n)

\* np.percentile(xs, p) with linear interpolation between the order statistics
Percentile(xs, p) ==
    LET srt == Sorted(xs)
        n == Len(xs)
        lo == ((n - 1) * p) \div 100
        rest == ((n - 1) * p) % 100
    IN  IF rest = 0 THEN Frac(srt[lo + 1], 1)
        ELSE Frac(100 * srt[lo + 1] + rest * (srt[lo + 2] - srt[lo + 1]), 100)

MinOf(xs) == Sorted(xs)[1]
MaxOf(xs) == Sorted(xs)[Len(xs)]

\* the scale of a value printed with two decimals
Hundred == 10 * 10

\* f"{q:.2f}" of a non-negative fraction: hundredths, ties to the even digit
Fmt2(q) ==
    LET scaled == q.num * Hundred
        down == scaled \div q.den
        rest == scaled % q.den
    IN  IF 2 * rest > q.den \/ (2 * rest = q.den /\ down % 2 = 1) THEN down + 1 ELSE down

\* f"{np.sqrt(q):.2f}": the hundredths nearest to the square root of q
FmtSqrt2(q) ==
    LET h == CHOOSE k \in 0..(Hundred * (q.num + 1)) :
                 /\ k * k * q.den <= q.num * Hundred * Hundred
                 /\ (k + 1) * (k + 1) * q.den > q.num * Hundred * Hundred
    IN  IF (2 * h + 1) * (2 * h + 1) * q.den <= 4 * q.num * Hundred * Hundred
        THEN h + 1 ELSE h

\* the sizes generate_pdf_report extracts from the loaded size file
PdfSizes(a) == IF a.ndim > 1 THEN Column(a, 1) ELSE a.vec

\* the rows of the size statistics table (the confidence interval, skewness
\* and kurtosis rows, which come from scipy, are not represented)
SizeTable(sizes) ==
    [count    |-> Len(sizes),
     mean     |-> Fmt2(Mean(sizes)),
     median   |-> Fmt2(Median(sizes)),
     std      |-> FmtSqrt2(Variance(sizes)),
     variance |-> Fmt2(Variance(sizes)),
     range    |-> <<MinOf(sizes), MaxOf(sizes)>>,
     iqr      |-> Fmt2(Frac(Percentile(sizes, 75).num * Percentile(sizes, 25).den
                            - Percentile(sizes, 25).num * Percentile(sizes, 75).den,
                            Percentile(sizes, 75).den * Percentile(sizes, 25).den)),
     q1       |-> Fmt2(Percentile(sizes, 25)),
     q3       |-> Fmt2(Percentile(sizes, 75))]


\* os.path.exists(filename) of the files plt.savefig writes
figSizeDistribution == "size_distribution.png"
figCumulativeSize == "cumulative_size.png"
figCompositionScatter == "composition_scatter.png"
figCompositionRatio == "composition_ratio_hist.png"
figRdf == "rdf_analysis.png"
figCoordination == "coordination_number.png"
figEnergyDistribution == "energy_distribution.png"
figEnergyMetrics == "energy_metrics.png"
figTimeEvolution == "time_evolution.png"
figCorrelation == "correlation_matrix.png"

\* what a step of main() does: the value it returns ("None" or "data"), the
\* exception that leaves it ("" for none) and the figures it saves
Returns(value, figures) == [value |-> value, raised |-> "", figures |-> figures]
Raises(exception) == [value |-> NotRun, raised |-> exception, figures |-> {}]

\* analyze_size_distribution: np.max of an empty array raises ValueError, len()
\* of a 0-d array raises TypeError (the log-normal fit needs more than 5 sizes)
analyze_size_distribution(file) ==
    LET sizes_data == load_data(file)
    IN  IF sizes_data = None THEN Returns("None", {})
        ELSE IF sizes_data.ndim = 1 /\ sizes_data.vec = <<>> THEN Raises("ValueError")
        ELSE IF sizes_data.ndim = 0 THEN Raises("TypeError")
        ELSE Returns("data", {figSizeDistribution, figCumulativeSize})

\* analyze_composition
analyze_composition(file) ==
    LET comp_data == load_data(file)
    IN  IF comp_data = None THEN Returns("None", {})
        ELSE IF comp_data.ndim > 1 /\ NumColumns(comp_data) >= 3
        THEN Returns("data", {figCompositionScatter, figCompositionRatio})
        ELSE Returns("None", {})

\* analyze_structure
analyze_structure(file) ==
    LET rdf_data == load_data(file)
    IN  IF rdf_data = None THEN Returns("None", {})
        ELSE IF rdf_data.ndim > 1 /\ NumColumns(rdf_data) >= 2
        THEN Returns("data", {figRdf, figCoordination})
        ELSE Returns("None", {})

keyEnergyTotal == "Energy_Total:"
keyEnergyNano == "Energy_Nano:"
keyFormationEnergy == "Formation_Energy:"
keySurfaceEnergy == "Surface_Energy:"
ThermoKeys == {keyEnergyTotal, keyEnergyNano, keyFormationEnergy, keySurfaceEnergy}

\* a token of a line of the thermodynamics file: a word, or a number
Word(w) == [word |-> w, numeric |-> FALSE, number |-> 0]
Number(n) == [word |-> "", numeric |-> TRUE, number |-> n]

\* the places <<line, token>> where a key stands in a line holding Energy_Total:
KeyPlaces(lines) ==
    UNION {{<<l, i>> : i \in {j \in 1..Len(lines[l]) : lines[l][j].word \in ThermoKeys}} :
              l \in {m \in 1..Len(lines) :
                         \E j \in 1..Len(lines[m]) : lines[m][j].word = keyEnergyTotal}}

\* float(parts[i+1]) raises at a key that no number follows
ThermoParseRaises(lines) ==
    \E pl \in KeyPlaces(lines) :
        \/ pl[2] = Len(lines[pl[1]])
        \/ ~lines[pl[1]][pl[2] + 1].numeric

\* the value the loop leaves for `key`: that of its last place, [] for None
ThermoValue(lines, key) ==
    LET places == {pl \in KeyPlaces(lines) : lines[pl[1]][pl[2]].word = key}
    IN  IF places = {} THEN <<>>
        ELSE LET last == CHOOSE pl \in places :
                             \A q \in places :
                                 q[1] < pl[1] \/ (q[1] = pl[1] /\ q[2] <= pl[2])
             IN  <<lines[last[1]][last[2] + 1].number>>

\* analyze_thermodynamics: everything happens inside try/except; formatting a
\* value that is None raises TypeError there
analyze_thermodynamics(file) ==
    IF ~file.exists THEN Returns("None", {})
    ELSE IF ThermoParseRaises(file.rows) THEN Returns("None", {})
    ELSE IF \E key \in ThermoKeys : ThermoValue(file.rows, key) = <<>>
    THEN Returns("None", {})
    ELSE Returns("data", {figEnergyDistribution, figEnergyMetrics})

\* analyze_time_evolution
analyze_time_evolution(file) ==
    LET evolution_data == load_data(file)
    IN  IF evolution_data = None THEN Returns("None", {})
        ELSE IF evolution_data.ndim > 1 /\ NumColumns(evolution_data) >= 4
        THEN Returns("data", {figTimeEvolution, figCorrelation})
        ELSE Returns("None", {})

\* a section of the HTML report: its heading and the figures it refers to
HtmlSection(heading, figures) == [heading |-> heading, figures |-> figures]

\* html_content: a fixed text, whatever the analyses returned
HtmlSections ==
    <<HtmlSection("1. Size Distribution", {figSizeDistribution, figCumulativeSize}),
      HtmlSection("2. Composition Analysis", {figCompositionScatter, figCompositionRatio}),
      HtmlSection("3. Structural Analysis", {figRdf, figCoordination}),
      HtmlSection("4. Thermodynamic Analysis", {figEnergyDistribution, figEnergyMetrics}),
      HtmlSection("5. Time Evolution", {figTimeEvolution, figCorrelation}),
      HtmlSection("Conclusions", {})>>


\* the elements of the PDF content list (Spacer elements are left out)
NoData == [rows |-> 0]
Element(kind, text) == [kind |-> kind, text |-> text, data |-> NoData]
TableOf(name, data) == [kind |-> "Table", text |-> name, data |-> data]
ImageOf(file) == Element("Image", file)

\* what a part of generate_pdf_report appends, and the exception leaving it
Appends(elems) == [elems |-> elems, raised |-> ""]
AppendsThenRaises(elems, exception) == [elems |-> elems, raised |-> exception]

\* `if os.path.exists(img_path)`: the image and its caption
Figure(file, caption, figures) ==
    IF file \in figures THEN <<ImageOf(file), Element("Paragraph", caption)>> ELSE <<>>

headSize == "1. Nanoparticle Size Distribution Analysis"
headComposition == "2. Composition Analysis and Statistics"
headStructure == "3. Structural Analysis"
headThermo == "4. Thermodynamic Analysis"
headEvolution == "5. Time Evolution Analysis"
headConclusions == "6. Conclusions and Implications"

PdfTitle ==
    <<Element("Title", "MicroEDM Nitinol Nanoparticle Analysis"),
      Element("Heading1", "Detailed Statistical Report"),
      Element("Paragraph", "Generated on")>>

\* 1. ENHANCED SIZE DISTRIBUTION STATISTICS
PdfSizeSection(file, figures) ==
    LET particle_sizes == load_data(file)
        head == <<Element("Heading1", headSize)>>
    IN  IF particle_sizes # None /\ particle_sizes.ndim > 0
        THEN IF PdfSizes(particle_sizes) = <<>>
             THEN AppendsThenRaises(head, "ValueError")
             ELSE Appends(head \o
                          <<TableOf("size statistics", SizeTable(PdfSizes(particle_sizes))),
                            Element("Heading2", "Size Distribution Analysis:"),
                            Element("Paragraph", "distribution_text")>> \o
                          Figure(figSizeDistribution,
                                 "Figure 1: Nanoparticle size distribution with log-normal fit",
                                 figures))
        ELSE Appends(head)

\* 2. ENHANCED COMPOSITION ANALYSIS: building comp_data evaluates
\* f"{np.mean(ti_fraction)::.3f}", whose format specifier ':.3f' is invalid
PdfCompositionSection(file, figures) ==
    LET composition_data == load_data(file)
        head == <<Element("Heading1", headComposition)>>
    IN  IF composition_data # None /\ composition_data.ndim > 1
           /\ NumColumns(composition_data) >= 3
        THEN AppendsThenRaises(head, "ValueError")
        ELSE Appends(head)

\* the indices i (from 1) of the peaks of g(r): a local maximum above 1.0
PeakIndices(gr) ==
    {i \in 2..(Len(gr) - 1) : gr[i] > gr[i - 1] /\ gr[i] > gr[i + 1] /\ gr[i] > Hundred}

\* 3. ENHANCED STRUCTURAL ANALYSIS (r and g(r) are held in hundredths)
PdfStructureSection(file, figures) ==
    LET rdf_data == load_data(file)
        head == <<Element("Heading1", headStructure)>>
    IN  IF rdf_data # None /\ rdf_data.ndim > 1 /\ NumColumns(rdf_data) >= 2
        THEN Appends(head \o
                     (IF PeakIndices(Column(rdf_data, 1)) # {}
                      THEN <<TableOf("peaks", [rows |-> Cardinality(PeakIndices(Column(rdf_data, 1)))]),
                             Element("Paragraph", "structure_text")>>
                      ELSE <<>>) \o
                     Figure(figRdf, "Figure 3: Radial distribution function with peak analysis",
                            figures))
        ELSE Appends(head)

\* building energy_data raises when a value beside energy_total is None
\* (TypeError) or energy_total is 0 (ZeroDivisionError)
EnergyTableRaises(lines) ==
    \/ \E key \in ThermoKeys : ThermoValue(lines, key) = <<>>
    \/ ThermoValue(lines, keyEnergyTotal) = <<0>>

\* 4. THERMODYNAMIC ANALYSIS: the except clause appends a paragraph; the image
\* is added whenever its file exists
PdfThermoSection(file, figures) ==
    LET head == <<Element("Heading1", headThermo)>>
        body == IF ~file.exists THEN <<>>
                ELSE IF ThermoParseRaises(file.rows)
                THEN <<Element("Paragraph", "Error processing thermodynamic data")>>
                ELSE IF ThermoValue(file.rows, keyEnergyTotal) = <<>> THEN <<>>
                ELSE IF EnergyTableRaises(file.rows)
                THEN <<Element("Paragraph", "Error processing thermodynamic data")>>
                ELSE <<TableOf("energy", [rows |-> Cardinality(ThermoKeys)]),
                       Element("Paragraph", "thermo_text")>>
    IN  Appends(head \o body \o
                Figure(figEnergyMetrics,
                       "Figure 4: Key energy metrics for nanoparticle formation", figures))

\* the value of half_ejection_time after the loop: <<t>>, <<>> for None
HalfEjectionTime(time, ejected_count) ==
    LET reached == {i \in 1..Len(time) : 2 * ejected_count[i] >= MaxOf(ejected_count)}
    IN  IF reached = {} THEN <<>>
        ELSE <<time[CHOOSE i \in reached : \A j \in reached : i <= j]>>

\* 5. TEMPORAL EVOLUTION: half_ejection_time is assigned only under
\* `if max(ejected_count) > 0`, and read afterwards in any case
PdfEvolutionSection(file, figures) ==
    LET evolution_data == load_data(file)
        head == <<Element("Heading1", headEvolution)>>
        image == Figure(figTimeEvolution,
                        "Figure 5: Time evolution of key process variables", figures)
    IN  IF evolution_data # None /\ evolution_data.ndim > 1
           /\ NumColumns(evolution_data) >= 4
        THEN IF MaxOf(Column(evolution_data, 1)) > 0
             THEN Appends(head \o
                          <<TableOf("evolution",
                                    [half_ejection_time |->
                                         HalfEjectionTime(Column(evolution_data, 0),
                                                          Column(evolution_data, 1))]),
                            Element("Paragraph", "corr_text")>> \o image)
             ELSE AppendsThenRaises(head, "UnboundLocalError")
        ELSE Appends(head \o image)

PdfConclusions ==
    <<Element("Heading1", headConclusions), Element("Paragraph", "conclusion_text")>>

RECURSIVE RunParts(_, _)
\* the parts in order, up to and including the first one that raises
RunParts(parts, done) ==
    IF parts = <<>> THEN [elems |-> done, raised |-> ""]
    ELSE IF Head(parts).raised # ""
    THEN [elems |-> done \o Head(parts).elems, raised |-> Head(parts).raised]
    ELSE RunParts(Tail(parts), done \o Head(parts).elems)

\* generate_pdf_report up to doc.build: the content list and the exception
generate_pdf_report(files, figures) ==
    RunParts(<<Appends(PdfTitle),
               PdfSizeSection(files.size, figures),
               PdfCompositionSection(files.composition, figures),
               PdfStructureSection(files.rdf, figures),
               PdfThermoSection(files.thermo, figures),
               PdfEvolutionSection(files.evolution, figures),
               Appends(PdfConclusions)>>, <<>>)


(***************************************************************************)
(* main() of the report script, one step at a time.                        *)
(***************************************************************************)
Present(rows) == [exists |-> TRUE, rows |-> rows]

\* particle_size_dist.dat: sizes alone, or (cluster id, size) rows
SizeFiles ==
    {Missing,
     Present(<<<<4>>, <<10>>, <<7>>>>),
     Present(<<<<1, 4>>, <<2, 9>>>>),
     Present(<<<<1, 6>>, <<2, 3>>, <<3, 12>>>>),
     Present(<<<<7, 120>>>>),
     Present(<<<<120>>>>)}

\* composition_analysis.dat: (cluster id, Ni count, Ti count) rows, or too few columns
CompositionFiles ==
    {Missing,
     Present(<<<<1, 5, 5>>, <<2, 6, 3>>>>),
     Present(<<<<1, 5>>, <<2, 6>>>>)}

\* rdf_nanoparticles.dat: (r, g(r)) rows, in hundredths
RdfFiles ==
    {Missing,
     Present(<<<<100, 50>>, <<250, 300>>, <<400, 80>>>>)}

\* thermodynamic_analysis.dat: the four values on one line, or one per line
ThermoFiles ==
    {Missing,
     Present(<<<<Word(keyEnergyTotal), Number(-500), Word(keyEnergyNano), Number(-200),
                Word(keyFormationEnergy), Number(-4), Word(keySurfaceEnergy), Number(1)>>>>),
     Present(<<<<Word(keyEnergyTotal), Number(-500)>>, <<Word(keyEnergyNano), Number(-200)>>,
               <<Word(keyFormationEnergy), Number(-4)>>, <<Word(keySurfaceEnergy), Number(1)>>>>)}

\* cluster_evolution.dat: (time, ejected count, temperature, clusters) rows
EvolutionFiles ==
    {Missing,
     Present(<<<<0, 0, 900, 0>>, <<1, 4, 700, 1>>, <<2, 10, 500, 3>>>>),
     Present(<<<<0, 0, 900, 0>>, <<1, 0, 700, 0>>>>)}

AllFigures ==
    {figSizeDistribution, figCumulativeSize, figCompositionScatter, figCompositionRatio,
     figRdf, figCoordination, figEnergyDistribution, figEnergyMetrics, figTimeEvolution,
     figCorrelation}

\* the input file of each analysis step
InputOf(k) ==
    CASE k = 1 -> data_files.size
      [] k = 2 -> data_files.composition
      [] k = 3 -> data_files.rdf
      [] k = 4 -> data_files.thermo
      [] k = 5 -> data_files.evolution

\* what analysis step k does
Analysis(k) ==
    CASE k = 1 -> analyze_size_distribution(data_files.size)
      [] k = 2 -> analyze_composition(data_files.composition)
      [] k = 3 -> analyze_structure(data_files.rdf)
      [] k = 4 -> analyze_thermodynamics(data_files.thermo)
      [] k = 5 -> analyze_time_evolution(data_files.evolution)

\* main() is entered
StartMain ==
    /\ main_pc = 0
    /\ main_pc' = 1
    /\ UNCHANGED <<data_dir, data_files, figure_files, main_raised, returned,
                   html_report, pdf_content, pdf_built>>
    /\ UNCHANGED <<poll, log_input, parse_result, fsvars, active_lammps, status_result,
                   plot_calls, webvars>>

\* main() calls analysis k; an exception leaving it ends main()
RunAnalysis(k) ==
    /\ main_pc = k
    /\ main_raised = ""
    /\ LET out == Analysis(k)
       IN  /\ main_raised' = out.raised
           /\ main_pc' = IF out.raised = "" THEN k + 1 ELSE k
           /\ returned' = [returned EXCEPT ![k] = out.value]
           /\ figure_files' = figure_files \cup out.figures
    /\ UNCHANGED <<data_dir, data_files, html_report, pdf_content, pdf_built>>
    /\ UNCHANGED <<poll, log_input, parse_result, fsvars, active_lammps, status_result,
                   plot_calls, webvars>>

\* main() calls generate_report: open(report_file, 'w') needs DATA_DIR
RunGenerateReport ==
    /\ main_pc = 6
    /\ main_raised = ""
    /\ IF data_dir
       THEN /\ html_report' = HtmlSections
            /\ returned' = [returned EXCEPT ![6] = "None"]
            /\ main_pc' = 7
            /\ UNCHANGED main_raised
       ELSE /\ main_raised' = "FileNotFoundError"
            /\ UNCHANGED <<html_report, returned, main_pc>>
    /\ UNCHANGED <<data_dir, data_files, figure_files, pdf_content, pdf_built>>
    /\ UNCHANGED <<poll, log_input, parse_result, fsvars, active_lammps, status_result,
                   plot_calls, webvars>>

\* main() calls generate_pdf_report; doc.build writes the file into DATA_DIR
RunGeneratePdf ==
    /\ main_pc = 7
    /\ main_raised = ""
    /\ LET out == generate_pdf_report(data_files, figure_files)
       IN  /\ pdf_content' = out.elems
           /\ IF out.raised # ""
              THEN /\ main_raised' = out.raised
                   /\ UNCHANGED <<pdf_built, returned, main_pc>>
              ELSE IF ~data_dir
              THEN /\ main_raised' = "FileNotFoundError"
                   /\ UNCHANGED <<pdf_built, returned, main_pc>>
              ELSE /\ pdf_built' = TRUE
                   /\ returned' = [returned EXCEPT ![7] = "None"]
                   /\ main_pc' = 8
                   /\ UNCHANGED main_raised
    /\ UNCHANGED <<data_dir, data_files, figure_files, html_report>>
    /\ UNCHANGED <<poll, log_input, parse_result, fsvars, active_lammps, status_result,
                   plot_calls, webvars>>

\* the data directory when the script is started: it may not exist at all,
\* and FIGURE_DIR may hold the figures of an earlier run
InitReport ==
    /\ log_input = [lines |-> <<>>, pad |-> 0, readable |-> TRUE]
    /\ parse_result = NotCalled
    /\ FsEmpty
    /\ NotPolled
    /\ WebIdle
    /\ pipeline_script = FALSE
    /\ remote_url = NoUrl
    /\ MainNotStarted
    /\ data_dir \in BOOLEAN
    /\ data_files \in [size : SizeFiles, composition : CompositionFiles, rdf : RdfFiles,
                       thermo : ThermoFiles, evolution : EvolutionFiles]
    /\ ~data_dir => \A f \in {data_files.size, data_files.composition, data_files.rdf,
                              data_files.thermo, data_files.evolution} : f = Missing
    /\ figure_files \in {{}, AllFigures}

NextReport ==
    \/ StartMain
    \/ \E k \in 1..5 : RunAnalysis(k)
    \/ RunGenerateReport
    \/ RunGeneratePdf

SpecReport == InitReport /\ [][NextReport]_vars


(***************************************************************************)
(* Claims about the report script.                                         *)
(***************************************************************************)
\* step k of main() has been called
Invoked(k) == main_pc > k \/ (main_pc = k /\ main_raised # "")

\* C11 as stated: whatever subset of the five input files is missing, an
\* analysis whose file is missing returns None without raising, and no later
\* step is kept from being called: main() is only ever ended by an exception
\* of an analysis whose file exists, or inside generate_pdf_report, the last
\* step.
C11_MissingFileNeverStopsMain ==
    /\ \A k \in 1..5 :
           (Invoked(k) /\ ~InputOf(k).exists) =>
               /\ returned[k] = "None"
               /\ main_pc > k
    /\ main_raised # "" =>
           \/ main_pc \in 1..5 /\ InputOf(main_pc).exists
           \/ main_pc = NumSteps

\* the same, for a data directory that exists
C11_HoldsWhenDataDirExists == data_dir => C11_MissingFileNeverStopsMain


\* what belongs to the report section of analysis k: its figures, its PDF
\* heading and its PDF table
SectionFigures(k) == HtmlSections[k].figures
PdfHeading(k) == <<headSize, headComposition, headStructure, headThermo, headEvolution>>[k]
PdfTableName(k) == <<"size statistics", "composition", "peaks", "energy", "evolution">>[k]

\* an element of the PDF content list that belongs to the section of analysis k
InPdfSection(e, k) ==
    \/ e.kind = "Heading1" /\ e.text = PdfHeading(k)
    \/ e.kind = "Image" /\ e.text \in SectionFigures(k)
    \/ e.kind = "Table" /\ e.text = PdfTableName(k)

\* C12 as stated: when the input file of analysis k is missing, the HTML
\* report holds neither the heading nor a figure reference of section k, and
\* the PDF content list holds no heading, image or table of section k.
C12_MissingFileSectionOmitted ==
    \A k \in 1..5 :
        ~InputOf(k).exists =>
            /\ \A i \in DOMAIN html_report :
                   /\ html_report[i].heading # HtmlSections[k].heading
                   /\ html_report[i].figures \cap SectionFigures(k) = {}
            /\ \A i \in DOMAIN pdf_content : ~InPdfSection(pdf_content[i], k)


\* the multiset of sizes a size file holds: the value of each row of a
\* one-column file, the second value of each row of a (cluster id, size) file
KnownSizes(file) == [k \in 1..Len(file.rows) |-> file.rows[k][Len(file.rows[k])]]

\* the size statistics table in the PDF content is that of the sizes `sizes`
HasSizeTable(sizes) ==
    \E i \in DOMAIN pdf_content :
        /\ pdf_content[i].kind = "Table"
        /\ pdf_content[i].text = "size statistics"
        /\ pdf_content[i].data = SizeTable(sizes)

\* C17 as stated: for a size file holding a known multiset of sizes, in one
\* column or as (cluster id, size) rows, the count, mean, median, standard
\* deviation, variance, range and quartiles in the report are those of that
\* multiset.
C17_SizeStatisticsMatchClosedForm ==
    (pdf_content # <<>> /\ data_files.size.exists) =>
        HasSizeTable(KnownSizes(data_files.size))

\* the same for the files of two rows or more, which np.loadtxt does not squeeze
C17_HoldsForSeveralRows ==
    (pdf_content # <<>> /\ data_files.size.exists /\ Len(data_files.size.rows) > 1) =>
        HasSizeTable(KnownSizes(data_files.size))

\* C20 as stated: whatever combination of the five well-formed input files
\* is present, a call of generate_pdf_report raises nothing and reaches
\* doc.build, which writes the PDF.
C20_PdfReportRunsToCompletion ==
    Invoked(NumSteps) =>
        /\ main_raised = ""
        /\ pdf_built

\* the same when the composition file is missing or has fewer than three
\* columns, and the time-evolution file is missing or counts ejected atoms
C20_HoldsWithoutCompositionTable ==
    (/\ Invoked(NumSteps)
     /\ PdfCompositionSection(data_files.composition, figure_files).raised = ""
     /\ PdfEvolutionSection(data_files.evolution, figure_files).raised = ""
     /\ PdfSizeSection(data_files.size, figure_files).raised = "") =>
        /\ main_raised = ""
        /\ pdf_built

\* generate_pdf_report was called and reached section 5 with a time-evolution
\* table of two rows or more
EvolutionSectionReached ==
    /\ Invoked(NumSteps)
    /\ data_files.evolution.exists
    /\ Len(data_files.evolution.rows) >= 2
    /\ PdfSizeSection(data_files.size, figure_files).raised = ""
    /\ PdfCompositionSection(data_files.composition, figure_files).raised = ""

\* the 'Time to 50% Ejection' entry the table should show: <<t>> for the
\* first time at which the ejected count is at least half of its maximum,
\* <<>> for 'N/A'
ExpectedHalfEjection(rows) ==
    LET ejected == [k \in 1..Len(rows) |-> rows[k][2]]
        reached == {k \in 1..Len(rows) : 2 * ejected[k] >= MaxOf(ejected)}
    IN  IF MaxOf(ejected) > 0 /\ reached # {}
        THEN <<rows[CHOOSE k \in reached : \A j \in reached : k <= j][1]>>
        ELSE <<>>

\* C29 as stated: with a time-evolution table of two rows or more, section 5
\* raises nothing and its table shows the first time at which the ejected
\* count reaches half of its maximum, or 'N/A' when there is none, as when
\* the maximum is not positive.
C29_HalfEjectionTimeOrNA ==
    EvolutionSectionReached =>
        /\ main_raised = ""
        /\ \E i \in DOMAIN pdf_content :
               /\ pdf_content[i].kind = "Table"
               /\ pdf_content[i].text = "evolution"
               /\ pdf_content[i].data.half_ejection_time
                      = ExpectedHalfEjection(data_files.evolution.rows)

\* the same for the tables whose ejected count becomes positive
C29_HoldsWhenAtomsEjected ==
    (EvolutionSectionReached
         /\ \E k \in 1..Len(data_files.evolution.rows) :
                data_files.evolution.rows[k][2] > 0) =>
        /\ main_raised = ""
        /\ \E i \in DOMAIN pdf_content :
               /\ pdf_content[i].kind = "Table"
               /\ pdf_content[i].text = "evolution"
               /\ pdf_content[i].data.half_ejection_time
                      = ExpectedHalfEjection(data_files.evolution.rows)

(***************************************************************************)
(* get_simulation_status one file-system access at a time, while the       *)
(* simulation pipeline removes log files or makes them unreadable.         *)
(***************************************************************************)
\* the file the call finds under a name: open() fails alike on a file that is
\* gone and on one that cannot be read
Gone == [lines |-> <<>>, pad |-> 0, readable |-> FALSE]
FileAt(i, n) == IF n \in DOMAIN log_files[i] THEN log_files[i][n] ELSE Gone

\* phase_info as the loop body creates it
DefaultInfo(i) ==
    [phase |-> i, status |-> "Not Started", progress |-> 0,
     log_files |-> {}, plots |-> <<>>, current_log |-> NoLog]

\* the dictionary returned after the loop
StatusOf(phases, pipeline_running, active) ==
    [phases           |-> phases,
     overall_progress |-> OverallProgress(phases),
     pipeline_running |-> pipeline_running,
     active_lammps    |-> Len(active)]

\* the call is entered: the two pgrep calls are made
BeginStatus ==
    /\ poll = NoPoll
    /\ \E pids \in SUBSET LammpsPids :
           /\ poll' = [pc |-> "phase", phase |-> 1, active |-> PgrepLammps(pids),
                       pipeline_running |-> PgrepPipeline, listing |-> {},
                       info |-> DefaultInfo(1), phases |-> <<>>, raised |-> ""]
           /\ active_lammps' = PgrepLammps(pids)
    /\ UNCHANGED <<log_input, parse_result, fsvars, status_result, webvars, plot_calls,
                   repvars>>

\* status["phases"].append(phase_info), then the next phase or the return
AppendInfo(info) ==
    LET phases == Append(poll.phases, info)
    IN  IF poll.phase = NumPhases
        THEN /\ poll' = [poll EXCEPT !.pc = "returned", !.phases = phases, !.info = info]
             /\ status_result' = StatusOf(phases, poll.pipeline_running, poll.active)
        ELSE /\ poll' = [poll EXCEPT !.pc = "phase", !.phase = @ + 1, !.phases = phases,
                                     !.listing = {}, !.info = DefaultInfo(poll.phase + 1)]
             /\ UNCHANGED status_result

\* the directory tests, the glob and the test of the COMPLETE file
ListLogs ==
    /\ poll.pc = "phase"
    /\ LET i == poll.phase
           listing == GlobLogs(log_files[i])
       IN  IF ~phase_dir[i] \/ ~log_dir[i] \/ listing = {}
           THEN AppendInfo([DefaultInfo(i) EXCEPT
                                !.log_files = IF phase_dir[i] /\ log_dir[i]
                                              THEN listing ELSE {}])
           ELSE IF complete_flag[i]
           THEN AppendInfo([DefaultInfo(i) EXCEPT !.log_files = listing,
                                                  !.status = "Complete",
                                                  !.progress = Pct(100)])
           ELSE /\ poll' = [poll EXCEPT !.pc = "getmtime", !.listing = listing,
                                        !.info = [DefaultInfo(i) EXCEPT !.log_files = listing]]
                /\ UNCHANGED status_result
    /\ UNCHANGED <<log_input, parse_result, fsvars, active_lammps, webvars, plot_calls,
                   repvars>>

\* latest_log = max(log_files, key=os.path.getmtime), outside any try:
\* os.path.getmtime raises FileNotFoundError for a listed file that is gone
PickLatest ==
    /\ poll.pc = "getmtime"
    /\ LET i == poll.phase
       IN  IF poll.listing \subseteq DOMAIN log_files[i]
           THEN \E latest \in LatestCandidates(log_files[i]) :
                    poll' = [poll EXCEPT !.pc = "plots", !.info.current_log = latest]
           ELSE poll' = [poll EXCEPT !.pc = "raised", !.raised = "FileNotFoundError"]
    /\ UNCHANGED <<log_input, parse_result, fsvars, active_lammps, status_result, webvars,
                   plot_calls, repvars>>

\* "Generate plots for the log file if needed": parse_lammps_log and
\* create_plot catch what they raise
MakePlots ==
    /\ poll.pc = "plots"
    /\ LET i == poll.phase
           sections == parse_lammps_log(FileAt(i, poll.info.current_log))
           calls == IF plot_files[i] = {} /\ sections # <<>>
                    THEN <<[headers |-> SectionToPlot(sections)[1],
                            data    |-> SectionToPlot(sections)[2]]>>
                    ELSE <<>>
           written == IF calls # <<>> THEN create_plot(calls[1].data, calls[1].headers)
                      ELSE {}
       IN  /\ plot_calls' = [plot_calls EXCEPT ![i] = calls]
           /\ plot_files' = [plot_files EXCEPT ![i] = @ \cup written]
           /\ poll' = [poll EXCEPT !.pc = "estimate",
                                   !.info.plots = PlotList(i, plot_files[i] \cup written)]
    /\ UNCHANGED <<log_input, parse_result, phase_dir, log_dir, complete_flag, log_files,
                   active_lammps, status_result, webvars, repvars>>

\* "Estimate progress": the open and the read are inside a try
EstimateStep ==
    /\ poll.pc = "estimate"
    /\ LET i == poll.phase
           est == Estimate(i, FileAt(i, poll.info.current_log), poll.active)
       IN  AppendInfo([poll.info EXCEPT !.status = est.status, !.progress = est.progress])
    /\ UNCHANGED <<log_input, parse_result, fsvars, active_lammps, webvars, plot_calls,
                   repvars>>

\* the pipeline removes a log file while the call is in progress
DeleteLog(i, n) ==
    /\ poll.pc \in {"phase", "getmtime", "plots", "estimate"}
    /\ n \in DOMAIN log_files[i]
    /\ log_files' = [log_files EXCEPT
                         ![i] = [m \in (DOMAIN log_files[i]) \ {n} |-> log_files[i][m]]]
    /\ UNCHANGED <<log_input, parse_result, phase_dir, log_dir, complete_flag, plot_files,
                   active_lammps, status_result, webvars, plot_calls, poll, repvars>>

\* a log file becomes unreadable while the call is in progress
MakeUnreadable(i, n) ==
    /\ poll.pc \in {"phase", "getmtime", "plots", "estimate"}
    /\ n \in DOMAIN log_files[i]
    /\ log_files[i][n].readable
    /\ log_files' = [log_files EXCEPT ![i][n].readable = FALSE]
    /\ UNCHANGED <<log_input, parse_result, phase_dir, log_dir, complete_flag, plot_files,
                   active_lammps, status_result, webvars, plot_calls, poll, repvars>>

\* the logs directories the call is started on: phase 1 and phase 2 have
\* run, phases 3 and 4 have not
RaceLogs ==
    {NoLogs,
     logA :> WithMtime([lines |-> <<lnHeader2, lnRowC>>, pad |-> 0, readable |-> TRUE], 1),
     (logA :> WithMtime([lines |-> <<lnHeader2, lnRowC, lnLoopMid>>, pad |-> 0,
                         readable |-> TRUE], 1))
         @@ (logB :> WithMtime([lines |-> <<lnHeader2, lnRowC>>, pad |-> 0,
                                readable |-> TRUE], 2))}

InitRace ==
    /\ log_input = [lines |-> <<>>, pad |-> 0, readable |-> TRUE]
    /\ parse_result = NotCalled
    /\ phase_dir = [i \in Phases |-> i <= 2]
    /\ log_dir = [i \in Phases |-> i <= 2]
    /\ complete_flag \in {[i \in Phases |-> FALSE], [i \in Phases |-> i = 1]}
    /\ \E one \in RaceLogs, two \in RaceLogs :
           log_files = [i \in Phases |-> IF i = 1 THEN one ELSE IF i = 2 THEN two ELSE NoLogs]
    /\ plot_files = [i \in Phases |-> {}]
    /\ NotPolled
    /\ WebOff

NextRace ==
    \/ BeginStatus
    \/ ListLogs
    \/ PickLatest
    \/ MakePlots
    \/ EstimateStep
    \/ \E i \in Phases, n \in LogNames : DeleteLog(i, n)
    \/ \E i \in Phases, n \in LogNames : MakeUnreadable(i, n)

SpecRace == InitRace /\ [][NextRace]_vars

\* C13 as stated: no exception leaves get_simulation_status, whatever is
\* deleted or made unreadable while it runs: a failure while one phase is
\* handled does not keep the call from going through the remaining phases and
\* returning a dictionary with all four of them.
C13_StatusNeverRaises ==
    /\ poll.pc # "raised"
    /\ poll.pc = "returned" => Len(status_result.phases) = NumPhases

\* the part of C13 that the code keeps: a log that is gone or unreadable when
\* "Estimate progress" opens it gives the phase the status Unknown, progress 0
C13_FailedReadGivesUnknown ==
    [][(poll.pc = "estimate" /\ poll'.pc # "estimate"
            /\ ~FileAt(poll.phase, poll.info.current_log).readable) =>
           /\ poll'.phases[poll.phase].status = "Unknown"
           /\ poll'.phases[poll.phase].progress = 0]_vars

=============================================================================
